---- MODULE Spec2Model ----
(***************************************************************************)
(* Closure-phase bias estimation of MintPy (mintpy/closure_phase_bias.py). *)
(*                                                                         *)
(* Phases are integers counted in quarter turns, so that pi is Pi units    *)
(* and exp(1j*phase) is one of 1, i, -1, -i exactly.  A complex number is  *)
(* a record [re, im, den] standing for (re + i*im)/den.  Angles returned   *)
(* by np.angle are counted in thousandths of pi.                           *)
(***************************************************************************)
EXTENDS Integers, Sequences, FiniteSets, TLC

\* ------------------------------------------------------------- bounds ----
NumDate == 4        \* number of acquisitions retained in the network
Length  == 2        \* raster rows
Width   == 2        \* raster columns
MaxPha  == 2        \* largest closure residual seed, in quarter turns
NumAcq  == 5        \* number of acquisitions of the estimate actions
MaxBw   == 2        \* largest bandwidth --bw
MaxCum  == 1        \* largest cumulative closure phase seed of an artifact
MaxDates == 6       \* longest list of dates handed to the span functions
MaxGap  == 3        \* most days between two consecutive dates of that list

\* np.pi, in quarter turns
Pi == 2

VARIABLES
  date12_list,        \* ifgramStack: sorted sequence of date pairs <<i, j>>
  phase,              \* ifgramStack: unwrapped phase, [ifgram index -> [pixel -> Int]]
  entry,              \* which entry point runs: "mask" | "closure" | "ratio" | "ratio_all" |
                      \* "bias" | "cum_seq" | "quick_estimate" | "estimate"
  level,              \* nl of the mask action / conn_level of the closure step
  num_sigma,          \* <<numerator, denominator>> of --num-sigma
  threshold_amp,      \* <<numerator, denominator>> of --epsilon
  box_list,           \* what split2boxes returned
  pc,                 \* position in the running function
  bi,                 \* index of the box the loop is at
  avg_closure_phase,  \* [pixel -> complex]
  num_cp,             \* num_cp as returned by the last sum_seq_closure_phase
  mask,               \* [pixel -> BOOLEAN]
  files,              \* names of the output files written so far
  closure_phase,      \* compute_unwrap_closure_phase: sequence of slices [pixel -> Int]
  phase_read,         \* TRUE once readfile.read has read phase data
  err,                \* the exception that ended the run, or NoError
  bw,                 \* --bw, bandwidth of the time-series analysis
  coef,               \* -4*pi/wvl, as <<numerator, denominator>>
  art,                \* conn{n}_seqcumclosurephase.h5: [level -> [date index -> [pixel -> number]]]
  n_arg,              \* argument n of estimate_ratioX
  mask_arg,           \* argument mask of estimate_ratioX
  wratio,             \* ratio returned by estimate_ratioX / estimate_ratioX_all
  wratio_velocity,    \* velocity returned by estimate_ratioX
  biasts_bw1_rough,   \* estimate_bias: artifact of level nl, [date index -> [flat pixel index -> number]]
  biasts_bw1_fine,    \* estimate_bias: rescaled artifact of level 2, flattened likewise
  vel_mask,           \* estimate_bias: its local mask, [flat pixel index -> 0 | 1]
  W,                  \* estimate_bias: [flat pixel index -> [ifgram index -> number]]
  biasts_bwn,         \* estimate_bias: [date index -> [pixel -> number]]
  update_closure_phase, \* FALSE with --noupdate
  parallel,           \* TRUE when a cluster type is given (-c)
  cp_files,           \* paths of the files present under closurePhase/
  unw,                \* the unwrapped closure phases of a level: [index -> [pixel -> number]]
  tsbias,             \* bias time series of the block at hand
  Wratio_h5,          \* Wratio.h5: [wratio, bias_velocity], or <<>> when absent
  bias_approx_h5,     \* bias_timeseries_approx.h5: [date index -> [pixel -> number]], or <<>>
  bias_h5,            \* bias_timeseries.h5: [date index -> [pixel -> number]], or <<>>
  num_threads,        \* thread count of the linear-algebra libraries (OMP_NUM_THREADS, ...)
  num_threads_dict,   \* bias_correction: what set_num_threads returned, or <<>>
  cluster_obj,        \* bias_correction: the Dask cluster, "none" | "open" | "closed"
  exit_code,          \* <<exit status>> of the command, or <<>> while it runs
  dates,              \* date_ordinal: the day number of each acquisition
  span_conn,          \* what average_connN_igrams returned for each level 1..bw
  span_bw,            \* what average_temporal_span returned
  p_level,            \* the level p of estimate_tsbias_approx, or 0
  conn_comp,          \* the connected-component labels beside each *.unw file
  common_mask         \* conn{n}_maskConnComp.h5: [pixel -> BOOLEAN], or <<>>

maskVars == <<date12_list, phase, entry, level, num_sigma, threshold_amp, box_list,
              pc, bi, avg_closure_phase, num_cp, mask, files, closure_phase,
              phase_read, err>>

biasVars == <<bw, coef, art, n_arg, mask_arg, wratio, wratio_velocity,
              biasts_bw1_rough, biasts_bw1_fine, vel_mask, W, biasts_bwn>>

mainVars == <<update_closure_phase, parallel, cp_files, unw>>

outVars == <<tsbias, Wratio_h5, bias_approx_h5, bias_h5>>

runVars == <<num_threads, num_threads_dict, cluster_obj, exit_code>>

spanVars == <<dates, span_conn, span_bw, p_level>>

cumVars == <<conn_comp, common_mask>>

\* ------------------------------------------------------------ helpers ----
Abs(x) == IF x < 0 THEN -x ELSE x

RECURSIVE SumOver(_, _)
\* sum of f[x] over the finite set S
SumOver(S, f) ==
  IF S = {} THEN 0
  ELSE LET x == CHOOSE y \in S : TRUE IN f[x] + SumOver(S \ {x}, f)

RECURSIVE SumSeq(_)
SumSeq(s) == IF s = <<>> THEN 0 ELSE Head(s) + SumSeq(Tail(s))

PairLess(a, b) == a[1] < b[1] \/ (a[1] = b[1] /\ a[2] < b[2])

RECURSIVE SortPairs(_)
\* the pairs of S as a sequence sorted by first date, then second date
SortPairs(S) ==
  IF S = {} THEN <<>>
  ELSE LET m == CHOOSE a \in S : \A b \in S \ {a} : PairLess(a, b)
       IN <<m>> \o SortPairs(S \ {m})

IndexOf(s, e) == CHOOSE k \in 1..Len(s) : s[k] = e

Range(s) == {s[k] : k \in 1..Len(s)}

\* ------------------------------------------------------ raster, boxes ----
Pixels == (0..(Length - 1)) \X (0..(Width - 1))      \* <<y, x>>

\* a box is <<x0, y0, x1, y1>>
BoxPixels(box) == {p \in Pixels : box[2] <= p[1] /\ p[1] < box[4]
                                  /\ box[1] <= p[2] /\ p[2] < box[3]}

RowBox(y0, y1) == <<0, y0, Width, y1>>

\* ifginv.split2boxes: the whole raster as one box, or row ranges that tile it,
\* here also in the reverse order
BoxLists ==
  {<<RowBox(0, Length)>>}
  \cup {<<RowBox(0, s), RowBox(s, Length)>> : s \in 1..(Length - 1)}
  \cup {<<RowBox(s, Length), RowBox(0, s)>> : s \in 1..(Length - 1)}

\* ------------------------------------------------------------ complex ----
Cpx(re, im, den) == [re |-> re, im |-> im, den |-> den]
CZero == Cpx(0, 0, 1)

\* np.exp(1j * x) for x in quarter turns
CExp(x) ==
  LET r == x % 4
  IN CASE r = 0 -> Cpx(1, 0, 1)
       [] r = 1 -> Cpx(0, 1, 1)
       [] r = 2 -> Cpx(-1, 0, 1)
       [] r = 3 -> Cpx(0, -1, 1)

\* np.angle(np.exp(1j * x)): x wrapped into (-pi, pi]
Wrap(x) == LET r == x % (2 * Pi) IN IF r > Pi THEN r - 2 * Pi ELSE r

\* atan2(b, a) for a, b >= 0 in thousandths of pi, rounded
QuadAngle ==
  << <<0, 500, 500, 500, 500, 500>>,
     <<0, 250, 352, 398, 422, 437>>,
     <<0, 148, 250, 313, 352, 379>>,
     <<0, 102, 187, 250, 295, 328>>,
     <<0,  78, 148, 205, 250, 285>>,
     <<0,  63, 121, 172, 215, 250>> >>

\* np.abs(np.angle(z)) in thousandths of pi
AbsAngle(z) ==
  LET q == QuadAngle[Abs(z.re) + 1][Abs(z.im) + 1]
  IN IF z.re >= 0 THEN q ELSE 1000 - q

\* ------------------------------------------------------- ifgramStack ----
Dates == 1..NumDate

AllPairs == {d \in Dates \X Dates : d[1] < d[2]}

\* the networks of the stack: every pair formed, or every pair but one
Networks == {AllPairs} \cup {AllPairs \ {d} : d \in AllPairs}

PixParity(p) == (p[1] + p[2]) % 2

UnitSeeds == {0, 1}            \* unit-step phase seeds, in quarter turns
PhaseSeeds == 0..MaxPha        \* closure residual seeds, in quarter turns

\* input phase of pair d at pixel p: a unit-step phase u per pixel class, and
\* a closure residual c per (start date, pixel) class on the longer pairs
SeedPhase(u, c, d, p) ==
  (d[2] - d[1]) * u[PixParity(p)]
  - (IF d[2] - d[1] >= 2 THEN c[(d[1] + PixParity(p)) % 2] ELSE 0)

\* REF_Y, REF_X of the stack
RefPix == <<0, 0>>

\* stack_obj.get_date_list(dropIfgram=True)
get_date_list == {d[1] : d \in Range(date12_list)} \cup {d[2] : d \in Range(date12_list)}

\* stack_obj.get_reference_phase(dropIfgram=False): phase of the reference pixel
ref_phase == [k \in 1..Len(date12_list) |-> phase[k][RefPix]]

\* the pairs of the closure loop of level n starting at date i
LoopPairs(i, n) == [j \in 1..(n + 1) |->
                      IF j <= n THEN <<i + j - 1, i + j>> ELSE <<i, i + n>>]

\* stack_obj.get_closure_phase_index(conn_level, dropIfgram=True): one row of
\* indices into date12_list per loop whose pairs all exist, sorted
RECURSIVE ClosureRows(_, _, _, _)
ClosureRows(i, n, num_date, pairs) ==
  IF i > num_date - n THEN <<>>
  ELSE LET lp == LoopPairs(i, n)
       IN (IF \A j \in 1..(n + 1) : lp[j] \in pairs
           THEN << [j \in 1..(n + 1) |-> IndexOf(date12_list, lp[j])] >>
           ELSE <<>>)
          \o ClosureRows(i + 1, n, num_date, pairs)

get_closure_phase_index(conn_level) ==
  ClosureRows(1, conn_level, Cardinality(get_date_list), Range(date12_list))

\* ------------------------------------------------------------- errors ----
NoError == [type |-> "none", msg |-> "", args |-> <<>>]

NameError(name) == [type |-> "NameError", msg |-> name, args |-> <<>>]

Exception(msg, args) == [type |-> "Exception", msg |-> msg, args |-> args]

\* ------------------------------------------------------ closure phase ----
\* lines 119-121 / 168-170: subtract the reference phase where phase is not 0
Dereference(box) ==
  LET ref == ref_phase
      pix == BoxPixels(box)
  IN [k \in 1..Len(date12_list) |->
        [p \in pix |-> IF phase[k][p] # 0 THEN phase[k][p] - ref[k] ELSE 0]]

\* np.sum(phase[idx_plus]): no axis, so the sum runs over the interferograms
\* of idx_plus and over every pixel of the box
SumPlus(ph, row, box) ==
  SumSeq([j \in 1..(Len(row) - 1) |-> SumOver(BoxPixels(box), ph[row[j]])])

\* lines 177-179: cp0_w of triplet row, an array over the box
ClosurePhase0(ph, row, box) ==
  LET plus  == SumPlus(ph, row, box)
      minor == ph[row[Len(row)]]
  IN [p \in BoxPixels(box) |-> plus - minor[p]]

\* seq_closure_phase: the comparison on line 111 reads the name n, which is
\* bound neither in the function nor in the module, so the call ends there
seq_closure_phase(box, conn_level) ==
  LET num_date == Cardinality(get_date_list)
      cp_idx   == get_closure_phase_index(conn_level)
  IN [err |-> NameError("n"), read |-> FALSE, cp_w |-> <<>>,
      found |-> Len(cp_idx), expected |-> num_date - conn_level]

RECURSIVE CumCp(_, _, _, _, _)
\* the loop of lines 174-182 from triplet i on, cum_cp being the sum so far
CumCp(ph, cp_idx, box, cum_cp, i) ==
  IF i > Len(cp_idx) THEN cum_cp
  ELSE LET cp0_w == ClosurePhase0(ph, cp_idx[i], box)
       IN CumCp(ph, cp_idx, box,
                [p \in BoxPixels(box) |->
                   Cpx(cum_cp[p].re + CExp(cp0_w[p]).re,
                       cum_cp[p].im + CExp(cp0_w[p]).im, 1)],
                i + 1)

\* lines 185-186
Normalize(z, n) == Cpx(z.re, z.im, z.den * n)

\* a plausible slip of line 162: a single triplet counted as none
NoTripletsOffByOne(n_cp) == n_cp <= 1

\* line 162: if num_cp < 1
NoTriplets(n_cp) == n_cp < 1

sum_seq_closure_phase(box, conn_level, normalize) ==
  LET cp_idx == get_closure_phase_index(conn_level)
      n_cp   == Len(cp_idx)
  IN IF NoTriplets(n_cp)
     THEN [err |-> Exception("No triplets found at connection level", <<conn_level>>),
           read |-> FALSE, cum_cp |-> <<>>, num_cp |-> n_cp]
     ELSE LET ph == Dereference(box)
          IN [err |-> NoError, read |-> TRUE,
              cum_cp |-> LET z == CumCp(ph, cp_idx, box,
                                        [p \in BoxPixels(box) |-> CZero], 1)
                         IN [p \in BoxPixels(box) |->
                               IF normalize THEN Normalize(z[p], n_cp) ELSE z[p]],
              num_cp |-> n_cp]

\* --------------------------------------------------------------- mask ----
\* a plausible slip of line 246: the factor num_sigma left out
ExceedsThresholdPhaNoSigma(z, n_cp, sg) ==
  AbsAngle(z) * AbsAngle(z) * 3 * n_cp > 1000 * 1000

\* lines 246, 249: np.abs(np.angle(z)) > np.pi / np.sqrt(3 * num_cp) * num_sigma,
\* both sides squared (angle in thousandths of pi, num_sigma = sg[1]/sg[2])
ExceedsThresholdPha(z, n_cp, sg) ==
  AbsAngle(z) * AbsAngle(z) * 3 * n_cp * sg[2] * sg[2] > 1000 * 1000 * sg[1] * sg[1]

\* line 253: np.abs(z) < threshold_amp, both sides squared (threshold = th[1]/th[2])
BelowThresholdAmp(z, th) ==
  (z.re * z.re + z.im * z.im) * th[2] * th[2] < th[1] * th[1] * z.den * z.den

\* a plausible slip of line 253: <= in place of <
UnmaskLowAmpLeq(m, avg, th) ==
  [p \in Pixels |->
     IF (avg[p].re * avg[p].re + avg[p].im * avg[p].im) * th[2] * th[2]
          <= th[1] * th[1] * avg[p].den * avg[p].den
     THEN TRUE ELSE m[p]]

\* line 249: mask[np.abs(np.angle(avg_closure_phase)) > threshold_pha] = 0
MaskBias(m, avg, n_cp, sg) ==
  [p \in Pixels |-> IF ExceedsThresholdPha(avg[p], n_cp, sg) THEN FALSE ELSE m[p]]

\* line 253: mask[np.abs(np.abs(avg_closure_phase) < threshold_amp)] = 1
UnmaskLowAmp(m, avg, th) ==
  [p \in Pixels |-> IF BelowThresholdAmp(avg[p], th) THEN TRUE ELSE m[p]]

\* <<--num-sigma, --epsilon>>: the defaults 3 and 0.3, and 0.5 and 1
MaskOptions == {<< <<3, 1>>, <<3, 10>> >>, << <<1, 2>>, <<1, 1>> >>}

InitStack ==
  /\ \E net \in Networks : date12_list = SortPairs(net)
  /\ \E u \in [0..1 -> UnitSeeds], c \in [0..1 -> PhaseSeeds] :
       phase = [k \in 1..Len(date12_list) |->
                  [p \in Pixels |-> SeedPhase(u, c, date12_list[k], p)]]

\* src/mintpy/__main__.py, lines 27-31
EX_OK == 0

EX_FAILURE == 1

\* a Python value: None, or an integer
None == [none |-> TRUE, value |-> 0]

PyInt(v) == [none |-> FALSE, value |-> v]

\* the thread count the environment sets before the command starts
OrigThreads == "4"

\* nothing estimated yet, no output file, no cluster, the command running
IdleEstimate ==
  /\ wratio = <<>> /\ wratio_velocity = <<>>
  /\ biasts_bw1_rough = <<>> /\ biasts_bw1_fine = <<>> /\ vel_mask = <<>>
  /\ W = <<>> /\ biasts_bwn = <<>>
  /\ tsbias = <<>> /\ Wratio_h5 = <<>> /\ bias_approx_h5 = <<>> /\ bias_h5 = <<>>
  /\ num_threads = OrigThreads /\ num_threads_dict = <<>>
  /\ cluster_obj = "none" /\ exit_code = <<>>
  /\ common_mask = <<>>

\* no date list handed to the span functions, nothing returned by them
IdleSpan == dates = <<>> /\ span_conn = <<>> /\ span_bw = <<>> /\ p_level = 0

\* the state of the estimate actions while the mask action runs
IdleBias ==
  /\ bw = 1 /\ coef = <<-1, 1>> /\ art = <<>> /\ n_arg = 1 /\ mask_arg = FALSE
  /\ update_closure_phase = TRUE /\ parallel = FALSE /\ cp_files = {} /\ unw = <<>>
  /\ conn_comp = <<>>
  /\ IdleEstimate
  /\ IdleSpan

InitRun ==
  /\ pc = "start"
  /\ bi = 1
  /\ avg_closure_phase = [p \in Pixels |-> CZero]
  /\ num_cp = 0
  /\ mask = [p \in Pixels |-> TRUE]
  /\ files = {}
  /\ closure_phase = <<>>
  /\ phase_read = FALSE
  /\ err = NoError

Init ==
  /\ InitStack
  /\ entry \in {"mask", "closure"}
  /\ level \in 2..(NumDate - 1)
  /\ IF entry = "mask"
     THEN \E o \in MaskOptions : num_sigma = o[1] /\ threshold_amp = o[2]
     ELSE num_sigma = <<3, 1>> /\ threshold_amp = <<3, 10>>
  /\ box_list \in BoxLists
  /\ InitRun
  /\ IdleBias

\* calc_closure_phase_mask, lines 208-220
MaskStart ==
  /\ pc = "start" /\ entry = "mask"
  /\ avg_closure_phase' = [p \in Pixels |-> CZero]
  /\ bi' = 1
  /\ pc' = "mask_boxes"
  /\ UNCHANGED <<date12_list, phase, entry, level, num_sigma, threshold_amp, box_list,
                 num_cp, mask, files, closure_phase, phase_read, err,
                 biasVars, mainVars, outVars,
                 runVars, spanVars, cumVars>>

\* calc_closure_phase_mask, one pass of the loop of lines 221-233
MaskBox ==
  /\ pc = "mask_boxes"
  /\ LET box == box_list[bi]
         r   == sum_seq_closure_phase(box, level, TRUE)
     IN IF r.err # NoError
        THEN /\ pc' = "failed"
             /\ err' = r.err
             /\ phase_read' = (phase_read \/ r.read)
             /\ UNCHANGED <<bi, avg_closure_phase, num_cp>>
        ELSE /\ avg_closure_phase' =
                  [p \in Pixels |-> IF p \in BoxPixels(box) THEN r.cum_cp[p]
                                    ELSE avg_closure_phase[p]]
             /\ num_cp' = r.num_cp
             /\ phase_read' = (phase_read \/ r.read)
             /\ bi' = bi + 1
             /\ pc' = IF bi = Len(box_list) THEN "create_mask" ELSE "mask_boxes"
             /\ err' = err
  /\ UNCHANGED <<date12_list, phase, entry, level, num_sigma, threshold_amp, box_list,
                 mask, files, closure_phase,
                 biasVars, mainVars, outVars,
                 runVars, spanVars, cumVars>>

\* calc_closure_phase_mask, lines 235-253
CreateMask ==
  /\ pc = "create_mask"
  /\ LET ones == [p \in Pixels |-> TRUE]
     IN mask' = UnmaskLowAmp(MaskBias(ones, avg_closure_phase, num_cp, num_sigma),
                             avg_closure_phase, threshold_amp)
  /\ pc' = "write_mask"
  /\ UNCHANGED <<date12_list, phase, entry, level, num_sigma, threshold_amp, box_list,
                 bi, avg_closure_phase, num_cp, files, closure_phase, phase_read, err,
                 biasVars, mainVars, outVars,
                 runVars, spanVars, cumVars>>

\* calc_closure_phase_mask, lines 255-261
WriteMask ==
  /\ pc = "write_mask"
  /\ files' = files \cup {"maskClosurePhase.h5"}
  /\ pc' = "write_avg"
  /\ UNCHANGED <<date12_list, phase, entry, level, num_sigma, threshold_amp, box_list,
                 bi, avg_closure_phase, num_cp, mask, closure_phase, phase_read, err,
                 biasVars, mainVars, outVars,
                 runVars, spanVars, cumVars>>

\* calc_closure_phase_mask, lines 263-272
WriteAvg ==
  /\ pc = "write_avg"
  /\ files' = files \cup {"avgCpxClosurePhase.h5"}
  /\ pc' = "done"
  /\ UNCHANGED <<date12_list, phase, entry, level, num_sigma, threshold_amp, box_list,
                 bi, avg_closure_phase, num_cp, mask, closure_phase, phase_read, err,
                 biasVars, mainVars, outVars,
                 runVars, spanVars, cumVars>>

\* the level compute_unwrap_closure_phase is called with: the level given,
\* and from main (lines 929-930) the level 2 first
ConnLevel == IF entry = "closure" THEN level ELSE 2

\* compute_unwrap_closure_phase, lines 367-384
ClosureStart ==
  /\ pc = "start" /\ entry = "closure"
  /\ closure_phase' = [i \in 1..(Cardinality(get_date_list) - level) |->
                          [p \in Pixels |-> 0]]
  /\ bi' = 1
  /\ pc' = "closure_boxes"
  /\ UNCHANGED <<date12_list, phase, entry, level, num_sigma, threshold_amp, box_list,
                 avg_closure_phase, num_cp, mask, files, phase_read, err,
                 biasVars, mainVars, outVars,
                 runVars, spanVars, cumVars>>

\* compute_unwrap_closure_phase, one pass of the loop of lines 385-395: the
\* call of seq_closure_phase ends in an exception, which ends the run
ClosureBox ==
  /\ pc = "closure_boxes"
  /\ LET r == seq_closure_phase(box_list[bi], ConnLevel)
     IN /\ r.err # NoError
        /\ err' = r.err
        /\ phase_read' = (phase_read \/ r.read)
        /\ num_cp' = r.found
        /\ pc' = "failed"
  /\ UNCHANGED <<date12_list, phase, entry, level, num_sigma, threshold_amp, box_list,
                 bi, avg_closure_phase, mask, files, closure_phase,
                 biasVars, mainVars, outVars,
                 runVars, spanVars, cumVars>>

Next ==
  \/ MaskStart
  \/ MaskBox
  \/ CreateMask
  \/ WriteMask
  \/ WriteAvg
  \/ ClosureStart
  \/ ClosureBox

vars == <<maskVars, biasVars, mainVars, outVars, runVars, spanVars, cumVars>>

Spec == Init /\ [][Next]_vars

TypeOK ==
  /\ pc \in {"start", "mask_boxes", "create_mask", "write_mask", "write_avg",
             "closure_boxes", "read", "checked", "invert", "returned", "box", "run",
             "conn", "span",
             "wratio_boxes", "approx_layout", "approx_boxes", "written",
             "done", "failed"}
  /\ bi \in 1..(Len(box_list) + 1)
  /\ mask \in [Pixels -> BOOLEAN]

\* ===================================================== closure phase ====
\* what the claims say, stated from the stack's data alone

\* phase of interferogram k at pixel p after the reference phase is subtracted
PhaseAt(k, p) == IF phase[k][p] # 0 THEN phase[k][p] - phase[k][RefPix] ELSE 0

\* closure phase of one triplet at pixel p, from that pixel alone
PixelClosure(row, p) ==
  SumSeq([j \in 1..(Len(row) - 1) |-> PhaseAt(row[j], p)]) - PhaseAt(row[Len(row)], p)

RECURSIVE PixelCum(_, _, _)
\* sum over the triplets from i on of exp(1j * wrapped closure phase) at pixel p
PixelCum(cp_idx, p, i) ==
  IF i > Len(cp_idx) THEN CZero
  ELSE LET e    == CExp(Wrap(PixelClosure(cp_idx[i], p)))
           rest == PixelCum(cp_idx, p, i + 1)
       IN Cpx(e.re + rest.re, e.im + rest.im, 1)

\* the boxes the mask loop has finished, and their pixels
DoneBoxPixels == UNION {BoxPixels(box_list[b]) : b \in 1..(bi - 1)}

TripletsFound == Len(get_closure_phase_index(level))
TripletsExpected == Cardinality(get_date_list) - level

\* C1: the phase accumulated by sum_seq_closure_phase at a pixel is the sum over
\* the triplets of exp(1j * closure phase of that pixel alone), the closure phase
\* being the unit-step phases of the pixel minus its level-n phase
C1_ClosureFromPixelAlone ==
  (entry = "mask" /\ pc \in {"mask_boxes", "create_mask", "write_mask", "write_avg", "done"})
  => LET cp_idx == get_closure_phase_index(level)
     IN \A p \in DoneBoxPixels :
          LET z == PixelCum(cp_idx, p, 1)
          IN avg_closure_phase[p] = Cpx(z.re, z.im, Len(cp_idx))

\* the mask and average of the raster processed as one box
WholeRaster == sum_seq_closure_phase(RowBox(0, Length), level, TRUE)

\* C2: the mask and the average closure phase are those of the raster processed
\* as one block, whatever the list of blocks and its order
C2_BlocksGiveSameMask ==
  (entry = "mask" /\ pc = "done")
  => /\ avg_closure_phase = WholeRaster.cum_cp
     /\ mask = UnmaskLowAmp(MaskBias([p \in Pixels |-> TRUE], WholeRaster.cum_cp,
                                     WholeRaster.num_cp, num_sigma),
                            WholeRaster.cum_cp, threshold_amp)

\* C3: with fewer than N-n triplets seq_closure_phase fails with an error naming
\* the found and the expected count, before phase data is read
C3_ShortfallErrorNamesCounts ==
  (entry = "closure" /\ pc \notin {"start", "closure_boxes"}
   /\ TripletsFound < TripletsExpected)
  => /\ pc = "failed"
     /\ err.type = "Exception"
     /\ err.args = <<TripletsFound, TripletsExpected>>
     /\ ~phase_read

\* C4: with exactly N-n triplets seq_closure_phase raises no error and returns
\* N-n slices
C4_FullNetworkReturnsSlices ==
  (entry = "closure" /\ pc \notin {"start", "closure_boxes"}
   /\ TripletsFound = TripletsExpected)
  => /\ err = NoError
     /\ pc # "failed"
     /\ Len(closure_phase) = TripletsExpected

MaskBuilt == pc \in {"write_mask", "write_avg", "done"}

AngleOver(z, n) ==
  AbsAngle(z) * AbsAngle(z) * 3 * n * num_sigma[2] * num_sigma[2]
    > 1000000 * num_sigma[1] * num_sigma[1]

AmpSquaredCmp(z) ==
  \* sign of |z|^2 - threshold_amp^2
  LET l == (z.re * z.re + z.im * z.im) * threshold_amp[2] * threshold_amp[2]
      r == threshold_amp[1] * threshold_amp[1] * z.den * z.den
  IN IF l < r THEN -1 ELSE IF l = r THEN 0 ELSE 1

\* C6: a pixel of the mask is false exactly when the angle of its average closure
\* phase is over the phase threshold and its amplitude is not below threshold_amp
C6_MaskRule ==
  MaskBuilt
  => LET n == TripletsFound
     IN \A p \in Pixels :
          mask[p] = ~(AngleOver(avg_closure_phase[p], n)
                      /\ AmpSquaredCmp(avg_closure_phase[p]) >= 0)

C6_Witness ==
  /\ pc = "done"
  /\ \E p \in Pixels : ~mask[p]
  /\ \E p \in Pixels : /\ AngleOver(avg_closure_phase[p], TripletsFound)
                       /\ AmpSquaredCmp(avg_closure_phase[p]) < 0
                       /\ mask[p]

\* C7 as claimed: a pixel whose amplitude equals the amplitude threshold is
\* unmasked
C7_AtThresholdUnmasked ==
  MaskBuilt
  => \A p \in Pixels : AmpSquaredCmp(avg_closure_phase[p]) = 0 => mask[p]

\* C7 amended: a pixel whose amplitude equals the amplitude threshold is not
\* unmasked by the amplitude test: it is true exactly when its angle is not over
\* the phase threshold
C7_AtThresholdFollowsPhase ==
  MaskBuilt
  => LET n == TripletsFound
     IN \A p \in Pixels :
          AmpSquaredCmp(avg_closure_phase[p]) = 0
            => (mask[p] = ~AngleOver(avg_closure_phase[p], n))

C7_Witness ==
  /\ pc = "done"
  /\ \E p \in Pixels : /\ AmpSquaredCmp(avg_closure_phase[p]) = 0
                       /\ AngleOver(avg_closure_phase[p], TripletsFound)
                       /\ ~mask[p]

\* ====================================================== float numbers ====
\* A float is NaN, an infinity or a fraction n/d in lowest terms with d > 0.
RECURSIVE Gcd(_, _)
Gcd(a, b) == IF b = 0 THEN a ELSE Gcd(b, a % b)

Sign(x) == IF x > 0 THEN 1 ELSE IF x < 0 THEN -1 ELSE 0

NaN == [k |-> "nan", n |-> 0, d |-> 1]
Inf(sgn) == [k |-> "inf", n |-> sgn, d |-> 1]
Num(n, d) ==
  LET g == Gcd(Abs(n), Abs(d))
  IN [k |-> "num", n |-> (Sign(d) * n) \div g, d |-> Abs(d) \div g]
Flt(i) == [k |-> "num", n |-> i, d |-> 1]

\* sign of a float that is not NaN
SignF(a) == Sign(a.n)

FNeg(a) == IF a.k = "nan" THEN NaN ELSE [a EXCEPT !.n = -a.n]

FAdd(a, b) ==
  CASE a.k = "nan" \/ b.k = "nan" -> NaN
    [] a.k = "inf" /\ b.k = "inf" -> IF a.n = b.n THEN a ELSE NaN
    [] a.k = "inf" -> a
    [] b.k = "inf" -> b
    [] OTHER -> Num(a.n * b.d + b.n * a.d, a.d * b.d)

FSub(a, b) == FAdd(a, FNeg(b))

FMul(a, b) ==
  CASE a.k = "nan" \/ b.k = "nan" -> NaN
    [] a.k = "inf" \/ b.k = "inf" ->
         IF SignF(a) * SignF(b) = 0 THEN NaN ELSE Inf(SignF(a) * SignF(b))
    [] OTHER -> Num(a.n * b.n, a.d * b.d)

\* np.divide: x/0 is an infinity of the sign of x, 0/0 is NaN
FDiv(a, b) ==
  CASE a.k = "nan" \/ b.k = "nan" -> NaN
    [] a.k = "inf" /\ b.k = "inf" -> NaN
    [] a.k = "inf" -> Inf(IF SignF(b) < 0 THEN -a.n ELSE a.n)
    [] b.k = "inf" -> Flt(0)
    [] b.n = 0 -> IF a.n = 0 THEN NaN ELSE Inf(Sign(a.n))
    [] OTHER -> Num(a.n * b.d, a.d * b.n)

\* a < b; a comparison with NaN is false
FLess(a, b) ==
  CASE a.k = "nan" \/ b.k = "nan" -> FALSE
    [] a.k = "inf" /\ b.k = "inf" -> a.n < b.n
    [] a.k = "inf" -> a.n < 0
    [] b.k = "inf" -> b.n > 0
    [] OTHER -> a.n * b.d < b.n * a.d

FAbs(a) == IF a.k = "nan" THEN NaN ELSE [a EXCEPT !.n = Abs(a.n)]

\* ================================================== decay ratio =========
\* tbase, in years: one acquisition a year
TBase(num_date) == [i \in 1..num_date |-> i - 1]

\* the connection levels whose artifact main computes: 2..max(2, bw), and nl
ArtLevels(b, nl) == (2..(IF b > 2 THEN b ELSE 2)) \cup {nl}

\* an artifact series: slice 0 is 0 and the series grows by the seed of its
\* level, plus g at the pixels of the odd columns, from one date to the next
PixClass(p) == p[2] % 2

SeedSeries(sd, g, num_date) ==
  [t \in 1..num_date |-> [p \in Pixels |-> Flt((sd + g * PixClass(p)) * (t - 1))]]

Last(ts) == ts[Len(ts)]

\* seq2cum_closure_phase(conn, outdir, box)
seq2cum_closure_phase(conn, box) ==
  [t \in 1..Len(art[conn]) |-> [p \in BoxPixels(box) |-> art[conn][t][p]]]

\* a plausible slip of lines 491-492: the lower clamp left out
ClampUpperOnly(x) == IF FLess(Flt(1), x) THEN Flt(1) ELSE x

\* lines 491-492 / 521-522: wratio[wratio>1]=1; wratio[wratio<0]=0
Clamp01(x) ==
  LET a == IF FLess(Flt(1), x) THEN Flt(1) ELSE x
  IN IF FLess(a, Flt(0)) THEN Flt(0) ELSE a

CoefF == Num(coef[1], coef[2])

\* estimate_ratioX(tbase, n, nl, wvl, box, outdir, mask)
estimate_ratioX(tbase, n, nl, box, msk) ==
  LET pix             == BoxPixels(box)
      cum_bias_conn_1 == Last(seq2cum_closure_phase(nl, box))
      delta_T         == tbase[Len(tbase)] - tbase[1]
      vel_bias_conn1  == [p \in pix |->
                            FDiv(FDiv(cum_bias_conn_1[p], CoefF), Flt(delta_T))]
      Masked(w)       == [p \in pix |->
                            IF msk /\ FLess(FAbs(vel_bias_conn1[p]), Num(1, 10))
                            THEN NaN ELSE w[p]]
      Velocity(w)     == [p \in pix |-> FMul(w[p], vel_bias_conn1[p])]
  IN IF n = 1
     THEN LET w == [p \in pix |-> Flt(1)]
          IN [wratio |-> Masked(w), wratio_velocity |-> Velocity(w)]
     ELSE LET cum_bias_conn_n == Last(seq2cum_closure_phase(n, box))
              w == [p \in pix |->
                      Clamp01(FSub(Flt(1), FDiv(cum_bias_conn_n[p], cum_bias_conn_1[p])))]
          IN [wratio |-> Masked(w), wratio_velocity |-> Velocity(w)]

\* estimate_ratioX_all(bw, nl, outdir, box): slices 0..bw
\* a plausible slip of lines 513-520: the two padding slices left at 0
estimate_ratioX_all_pad0(b, nl, box) ==
  LET pix             == BoxPixels(box)
      cum_bias_conn_1 == Last(seq2cum_closure_phase(nl, box))
  IN [n \in 0..b |->
        IF n >= 2
        THEN LET cum_bias_conn_n == Last(seq2cum_closure_phase(n, box))
             IN [p \in pix |->
                   Clamp01(FSub(Flt(1), FDiv(cum_bias_conn_n[p], cum_bias_conn_1[p])))]
        ELSE [p \in pix |-> Flt(0)]]

estimate_ratioX_all(b, nl, box) ==
  LET pix             == BoxPixels(box)
      cum_bias_conn_1 == Last(seq2cum_closure_phase(nl, box))
      Quot(n)         == IF n >= 2
                         THEN LET cum_bias_conn_n == Last(seq2cum_closure_phase(n, box))
                              IN [p \in pix |-> FDiv(cum_bias_conn_n[p], cum_bias_conn_1[p])]
                         ELSE [p \in pix |-> Flt(0)]
  IN [n \in 0..b |-> LET q == Quot(n) IN [p \in pix |-> Clamp01(FSub(Flt(1), q[p]))]]

\* ==================================================== estimate_bias =====
RECURSIVE FSumSeq(_)
\* np.matmul / np.sum of floats: every term is added
FSumSeq(s) == IF s = <<>> THEN Flt(0) ELSE FAdd(Head(s), FSumSeq(Tail(s)))

\* np.array: the entries of the sequence s, each computed once
Array(s) == s \o <<>>

\* a 2D array: the rows of m, each computed once
Array2(m) == Array([i \in 1..Len(m) |-> Array(m[i])])

\* position of date d in the sorted date list
DateIndex(d) == Cardinality({x \in get_date_list : x <= d})

\* stack_obj.get_design_matrix4timeseries(date12_list, refDate='no')[0:2]:
\* A has -1 at the first date and 1 at the second date of each pair, B has
\* the time interval tbase[j+1] - tbase[j] at every j between the two dates
get_design_matrix4timeseries(tbase) ==
  LET num_date == Len(tbase)
  IN [A |-> Array2([i \in 1..Len(date12_list) |-> [j \in 1..num_date |->
               IF j = DateIndex(date12_list[i][1]) THEN -1
               ELSE IF j = DateIndex(date12_list[i][2]) THEN 1 ELSE 0]]),
      B |-> Array2([i \in 1..Len(date12_list) |-> [j \in 1..num_date |->
               IF DateIndex(date12_list[i][1]) <= j /\ j < DateIndex(date12_list[i][2])
               THEN tbase[j + 1] - tbase[j] ELSE 0]])]

\* B[:,:-1]
DropLastColumn(m) == [i \in 1..Len(m) |-> SubSeq(m[i], 1, Len(m[i]) - 1)]

\* the square matrix m without row r and column c
Minor(m, r, c) ==
  Array2([i \in 1..(Len(m) - 1) |-> [j \in 1..(Len(m) - 1) |->
            m[IF i < r THEN i ELSE i + 1][IF j < c THEN j ELSE j + 1]]])

RECURSIVE Det(_)
Det(m) ==
  IF Len(m) = 1 THEN m[1][1]
  ELSE SumSeq(Array([j \in 1..Len(m) |->
                 (IF j % 2 = 1 THEN 1 ELSE -1) * m[1][j] * Det(Minor(m, 1, j))]))

\* np.linalg.pinv(B) of a matrix of full column rank: inv(B^T B) B^T
pinv(m) ==
  LET rows == Len(m)
      cols == Len(m[1])
      G    == Array2([j \in 1..cols |-> [k \in 1..cols |->
                 SumSeq(Array([i \in 1..rows |-> m[i][j] * m[i][k]]))]])
      det  == Det(G)
      Adj  == Array2([j \in 1..cols |-> [k \in 1..cols |->
                 IF cols = 1 THEN 1
                 ELSE (IF (j + k) % 2 = 0 THEN 1 ELSE -1) * Det(Minor(G, k, j))]])
  IN Array2([j \in 1..cols |-> [i \in 1..rows |->
               Num(SumSeq(Array([k \in 1..cols |-> Adj[j][k] * m[i][k]])), det)]])

IndexError(name) == [type |-> "IndexError", msg |-> name, args |-> <<>>]

\* the pixel at index i of the flattened box, and the index of the pixel p
PixelAt(box, i) ==
  <<box[2] + (i - 1) \div (box[3] - box[1]), box[1] + ((i - 1) % (box[3] - box[1]))>>

PixelIndex(box, p) == (p[1] - box[2]) * (box[3] - box[1]) + (p[2] - box[1]) + 1

\* a plausible slip: the box flattened column by column
ReshapeColumnMajor(box, a) ==
  [k \in 1..((box[3] - box[1]) * (box[4] - box[2])) |->
     a[<<box[2] + ((k - 1) % (box[4] - box[2])), box[1] + (k - 1) \div (box[4] - box[2])>>]]

\* a.reshape(-1) of the 2D array a over the box: row after row
Reshape(box, a) ==
  [k \in 1..((box[3] - box[1]) * (box[4] - box[2])) |-> a[PixelAt(box, k)]]

\* a plausible reading of lines 550-553: a level above bw takes the last slice
SliceAtClamped(a, idx, size) ==
  [err |-> NoError, val |-> a[IF idx >= size THEN size - 1 ELSE idx]]

\* a[idx,:,:] of an array with the slices 0..size-1 and an index idx >= 0
SliceAt(a, idx, size) ==
  IF idx >= size
  THEN [err |-> IndexError("index out of bounds for axis 0"), val |-> <<>>]
  ELSE [err |-> NoError, val |-> a[idx]]

\* get_design_matrix_W(M, A, bw, box, tbase, nl, outdir): W[k][i] is the entry of
\* row k (a flat pixel index) and column i (an interferogram)
get_design_matrix_W(M, A, b, box, nl) ==
  LET wratioall == estimate_ratioX_all(b, nl, box)
      Conn(i)   == IndexOf(A[i], 1) - IndexOf(A[i], -1)
      Col(i)    == SliceAt(wratioall, Conn(i), b + 1)
      numpix    == (box[3] - box[1]) * (box[4] - box[2])
  IN IF \E i \in 1..M : Col(i).err # NoError
     THEN [err |-> Col(CHOOSE i \in 1..M :
                         Col(i).err # NoError /\ \A j \in 1..(i - 1) : Col(j).err = NoError).err,
           W   |-> <<>>]
     ELSE LET cols == [i \in 1..M |-> Array(Reshape(box, Col(i).val))]
          IN [err |-> NoError,
              W   |-> [k \in 1..numpix |-> [i \in 1..M |-> cols[i][k]]]]

\* a plausible slip of line 789: only a network that is too small is refused
CountMismatchTooFew(num_ifgram, b, num_date) ==
  num_ifgram < (b * (num_date * 2 - b - 1)) \div 2

\* line 789: num_ifgram != int(bw*(num_date*2-bw-1)/2)
CountMismatch(num_ifgram, b, num_date) ==
  num_ifgram # (b * (num_date * 2 - b - 1)) \div 2

\* ============================================ closure phase files =======
FileNotFoundError(path) == [type |-> "FileNotFoundError", msg |-> path, args |-> <<>>]

TypeError(msg) == [type |-> "TypeError", msg |-> msg, args |-> <<>>]

\* lines 401 and 453-455: <root>/closurePhase/conn{n}_cp
ConnDir(root, n) == <<root, "closurePhase", <<"conn", n, "_cp">>>>

\* line 294
cum_cp_file(conn_dir, conn_level) ==
  <<conn_dir, <<"conn", conn_level, "_cumSeqClosurePhase.h5">>>>

\* line 295
mask_file(conn_dir, conn_level) ==
  <<conn_dir, <<"conn", conn_level, "_maskConnComp.h5">>>>

\* lines 407-409: the files of closure phase i of the level
int_file(conn_dir, conn_level, i) == <<conn_dir, <<"conn", conn_level, "_filt_", i, ".int">>>>
cor_file(conn_dir, conn_level, i) == <<conn_dir, <<"conn", conn_level, "_filt_", i, ".cor">>>>
unw_file(conn_dir, conn_level, i) == <<conn_dir, <<"conn", conn_level, "_filt_", i, ".unw">>>>

\* lines 453-455
seq_cp_file(conn) ==
  <<ConnDir("outdir", conn), <<"conn", conn, "_seqcumclosurephase.h5">>>>

\* lines 329-334: the cumulative series of the unwrapped closure phases
\* a plausible slip of lines 331-333: the last cumulative sum held to the end
CumSeriesHeld(cp_phase, conn_level, num_date) ==
  LET n_cp == num_date - conn_level
      Cum(k, p) == SumSeq(Array([j \in 1..k |-> cp_phase[j][p]]))
  IN [t \in 1..num_date |-> [p \in Pixels |->
        IF t = 1 THEN Flt(0)
        ELSE Num(Cum(IF t - 1 <= n_cp THEN t - 1 ELSE n_cp, p), conn_level)]]

CumSeries(cp_phase, conn_level, num_date) ==
  LET n_cp == num_date - conn_level
      Cum(k, p) == SumSeq(Array([j \in 1..k |-> cp_phase[j][p]]))
  IN [t \in 1..num_date |-> [p \in Pixels |->
        IF t = 1 THEN Flt(0)
        ELSE IF t - 1 <= n_cp THEN Num(Cum(t - 1, p), conn_level)
        ELSE Num((t - 1 - n_cp) * cp_phase[Len(cp_phase)][p] + Cum(n_cp, p),
                 conn_level)]]

\* line 324: np.where(conn_comp >= 1, 1, np.nan)
MaskLabel(c) == IF c >= 1 THEN Flt(1) ELSE NaN

\* line 345: np.where(np.isnan(np.sum(mask, 0)), False, True)
CommonMask(conn_comps) ==
  [p \in Pixels |->
     FSumSeq(Array([i \in 1..Len(conn_comps) |-> MaskLabel(conn_comps[i][p])])).k # "nan"]

\* cum_seq_unw_closure_phase(conn_level, conn_dir, date_list, meta), for the
\* unwrapped files unw_files of conn_dir, one per closure phase, and the
\* labels conn_comps beside them; present is the set of the files on disk,
\* series the time series files by level, cmask the mask file
cum_seq_unw_closure_phase(conn_level, conn_dir, num_date, unw_files, conn_comps, present, series, cmask) ==
  IF cum_cp_file(conn_dir, conn_level) \in present
       /\ mask_file(conn_dir, conn_level) \in present
  THEN [skipped |-> TRUE, files |-> present, series |-> series, mask |-> cmask]
  ELSE LET cp_phase == [i \in 1..Len(unw_files) |->
                          [p \in Pixels |-> unw_files[i][p] - unw_files[i][RefPix]]]
           bias_ts  == CumSeries(cp_phase, conn_level, num_date)
       IN [skipped |-> FALSE,
           files   |-> present \cup {cum_cp_file(conn_dir, conn_level),
                                     mask_file(conn_dir, conn_level)},
           series  |-> [lev \in DOMAIN series \cup {conn_level} |->
                          IF lev = conn_level THEN bias_ts ELSE series[lev]],
           mask    |-> CommonMask(conn_comps)]

\* seq2cum_closure_phase and readfile.read, lines 453-456: the file has to exist
ReadSeqCum(conn, box) ==
  IF seq_cp_file(conn) \in cp_files
  THEN [err |-> NoError, val |-> seq2cum_closure_phase(conn, box)]
  ELSE [err |-> FileNotFoundError(seq_cp_file(conn)), val |-> <<>>]

\* the first of the levels, in the order given, whose file is missing
FirstMissing(levels) ==
  LET miss == {i \in 1..Len(levels) : seq_cp_file(levels[i]) \notin cp_files}
  IN IF miss = {} THEN NoError
     ELSE FileNotFoundError(seq_cp_file(levels[CHOOSE i \in miss : \A j \in miss : i <= j]))

\* estimate_bias, lines 758-783: the two time series of the box, rescaled
\* and flattened, and the velocity mask
ReadBias(box, tbase) ==
  IF FirstMissing(<<level, 2>>) # NoError
  THEN [err |-> FirstMissing(<<level, 2>>)]
  ELSE LET pix      == BoxPixels(box)
           rough    == seq2cum_closure_phase(level, box)
           fine     == seq2cum_closure_phase(2, box)
           num_date == Len(tbase)
           delta_T  == tbase[num_date] - tbase[1]
           velocity_m == [p \in pix |-> FDiv(FDiv(Last(fine)[p], CoefF), Flt(delta_T))]
           scale    == [p \in pix |-> FDiv(Last(rough)[p], Last(fine)[p])]
       IN [err  |-> NoError,
           mask |-> Reshape(box, [p \in pix |->
                      IF FLess(FAbs(velocity_m[p]), Num(1, 10)) THEN 0 ELSE 1]),
           biasts_bw1_rough |-> [i \in 1..num_date |-> Reshape(box, rough[i])],
           biasts_bw1_fine  |-> [i \in 1..num_date |->
                                   Reshape(box, [p \in pix |-> FMul(scale[p], fine[i][p])])]]

\* lines 799-813 for one pixel: Wp its row of W, Dphi its series
InvertSeries(Wp, Dphi, A, B_inv, tbase) ==
  LET M          == Len(A)
      num_date   == Len(tbase)
      WrA        == Array2([i \in 1..M |-> [j \in 1..num_date |->
                              FMul(Wp[i], Flt(A[i][j]))]])
      Dphi_bias  == Array([i \in 1..M |->
                       FSumSeq(Array([j \in 1..num_date |-> FMul(WrA[i][j], Dphi[j])]))])
      biasvel    == Array([j \in 1..Len(B_inv) |->
                       FSumSeq(Array([i \in 1..M |-> FMul(B_inv[j][i], Dphi_bias[i])]))])
      biasts     == Array([t \in 1..Len(biasvel) |->
                       FSumSeq(Array([j \in 1..t |->
                                  FMul(biasvel[j], Flt(tbase[j + 1] - tbase[j]))]))])
  IN Array([t \in 1..num_date |-> IF t = 1 THEN Flt(0) ELSE FDiv(biasts[t - 1], CoefF)])

\* lines 797-813 for the pixel of flat index p
InvertPixel(p, A, B_inv, tbase) ==
  InvertSeries(W[p],
               IF vel_mask[p] = 0
               THEN [t \in 1..Len(tbase) |-> biasts_bw1_rough[t][p]]
               ELSE [t \in 1..Len(tbase) |-> biasts_bw1_fine[t][p]],
               A, B_inv, tbase)

\* lines 796-814: the loop over the pixels of the box, and the reshape
InvertBox(box, tbase) ==
  LET AB     == get_design_matrix4timeseries(tbase)
      B_inv  == pinv(DropLastColumn(AB.B))
      numpix == (box[3] - box[1]) * (box[4] - box[2])
      ts     == Array([i \in 1..numpix |-> InvertPixel(i, AB.A, B_inv, tbase)])
  IN [t \in 1..Len(tbase) |-> [p \in BoxPixels(box) |-> ts[PixelIndex(box, p)][t]]]

\* ====================================== approximate bias time series ====
\* lines 664-668: the day number of each acquisition, one acquisition a year
DateOrdinal(num_date) == [i \in 1..num_date |-> 365 * (i - 1)]

\* lines 588-592 / 570-573: the span from the first conn dates to the last conn dates
SpanSum(date_ordinal, conn) ==
  SumSeq(Array([i \in 1..conn |->
     date_ordinal[Len(date_ordinal) - conn + i] - date_ordinal[i]]))

average_temporal_span(date_ordinal, b) ==
  LET avgtime  == SumSeq(Array([lv \in 1..b |-> SpanSum(date_ordinal, lv)]))
      numigram == SumSeq(Array([lv \in 1..b |-> Len(date_ordinal) - lv]))
  IN Num(avgtime, numigram)

\* a plausible slip of line 594: the sum divided by the number of dates
average_connN_igrams_per_date(date_ordinal, conn) ==
  Num(SpanSum(date_ordinal, conn), Len(date_ordinal))

average_connN_igrams(date_ordinal, conn) ==
  Num(SpanSum(date_ordinal, conn), Len(date_ordinal) - conn)

\* np.argmin: the first index of the smallest value, counted from 0
ArgMin(s) ==
  (CHOOSE i \in 1..Len(s) : /\ \A j \in 1..(i - 1) : FLess(s[i], s[j])
                            /\ \A j \in (i + 1)..Len(s) : ~FLess(s[j], s[i])) - 1

\* lines 625-626: w[np.isnan(w)] = 0
NaNToZero(x) == IF x.k = "nan" THEN Flt(0) ELSE x

\* a plausible slip of line 627: the ratios near 1 kept
KeepNearOne(x) == x

\* line 627: w[abs(w-1)<0.1] = np.nan
NearOneToNaN(x) == IF FLess(FAbs(FSub(x, Flt(1))), Num(1, 10)) THEN NaN ELSE x

\* a plausible slip of line 635: the NaN of the first estimate kept
NoFill(b1, b2) == b1

\* line 635: biasts[np.isnan(biasts)] = biasts2[np.isnan(biasts1)]
FillNaN(b1, b2) == IF b1.k = "nan" THEN b2 ELSE b1

\* estimate_tsbias_approx(nl, bw, tbase, date_ordinal, wvl, box, outdir)
\* lines 614-618: the level p whose average span is nearest the average
\* span of the network of bandwidth b
p_of(date_ordinal, b) ==
  LET deltat_n    == Array([n \in 1..b |-> average_connN_igrams(date_ordinal, n)])
      avgtimespan == average_temporal_span(date_ordinal, b)
  IN ArgMin(Array([n \in 1..b |-> FAbs(FSub(deltat_n[n], avgtimespan))])) + 1

estimate_tsbias_approx(nl, b, tbase, date_ordinal, box) ==
  LET pix         == BoxPixels(box)
      p           == p_of(date_ordinal, b)
      m1          == 2
      m2          == nl
      w_p         == estimate_ratioX(tbase, p, nl, box, FALSE).wratio
      w_m1        == estimate_ratioX(tbase, m1, nl, box, FALSE).wratio
      wratio_p    == [q \in pix |-> NaNToZero(w_p[q])]
      wratio_m1   == [q \in pix |-> NearOneToNaN(NaNToZero(w_m1[q]))]
      ratio1      == [q \in pix |-> FDiv(wratio_p[q], FSub(Flt(1), wratio_m1[q]))]
      biasts1     == seq2cum_closure_phase(m1, box)
      biasts2     == seq2cum_closure_phase(m2, box)
  IN [t \in 1..Len(biasts1) |-> [q \in pix |->
        FillNaN(FMul(FDiv(biasts1[t][q], CoefF), ratio1[q]),
                FMul(FDiv(biasts2[t][q], CoefF), wratio_p[q]))]]

\* =================================================== output files =======
\* writefile.layout_hdf5 with no data: a dataset of zeros
layout_hdf5(num) == [t \in 1..num |-> [p \in Pixels |-> Flt(0)]]

\* the array of a box, indexed from the corner of the box
Local(box, a) ==
  [ij \in (0..(box[4] - box[2] - 1)) \X (0..(box[3] - box[1] - 1)) |->
     a[<<box[2] + ij[1], box[1] + ij[2]>>]]

\* a plausible slip of lines 705, 727, 895: the offsets of the box left out
BlockFromOrigin(box, num) == <<0, num, 0, box[4] - box[2], 0, box[3] - box[1]>>

\* lines 705, 727, 895: block = [0, num, box[1], box[3], box[0], box[2]]
Block(box, num) == <<0, num, box[2], box[4], box[1], box[3]>>

\* writefile.write_hdf5_block(file, data, datasetName, block)
write_hdf5_block(f, data, block) ==
  [t \in DOMAIN f |-> [p \in Pixels |->
     IF /\ block[1] < t /\ t <= block[2]
        /\ block[3] <= p[1] /\ p[1] < block[4]
        /\ block[5] <= p[2] /\ p[2] < block[6]
     THEN data[t - block[1]][<<p[1] - block[3], p[2] - block[5]>>]
     ELSE f[t][p]]]

\* data / 100, lines 729 and 897
Div100(ts) == [t \in DOMAIN ts |-> [p \in DOMAIN ts[t] |-> FDiv(ts[t][p], Flt(100))]]

\* -------------------------------------------------------- the network ----
Acqs == 1..NumAcq

\* every pair of connection level at most c
Full(c) == {d \in Acqs \X Acqs : d[1] < d[2] /\ d[2] - d[1] <= c}

\* modify_network.py: a full network, one with a pair missing, and one with
\* a pair replaced by a longer pair
BiasNetworks ==
  {Full(c) : c \in 1..(MaxBw + 1)}
  \cup {Full(c) \ {<<2, 3>>} : c \in 1..(MaxBw + 1)}
  \cup {(Full(c) \ {<<2, 3>>}) \cup {<<1, c + 2>>} : c \in 1..MaxBw}

\* -4*pi/wvl of two wavelengths
Coefs == {<<-1, 1>>, <<-20, 1>>}

\* seeds of the artifacts of the levels 2..bw, and of the reference level
CumSeeds == (0 - MaxCum)..MaxCum
RefSeeds == 0..MaxCum

\* the files of the levels as seq2cum_closure_phase names them, and as
\* cum_seq_unw_closure_phase names them
ReaderNamed(levels) == {seq_cp_file(lev) : lev \in levels}
WriterNamed(levels) ==
  {cum_cp_file(ConnDir("outdir", lev), lev) : lev \in levels}
  \cup {mask_file(ConnDir("outdir", lev), lev) : lev \in levels}

\* every file an earlier compute_unwrap_closure_phase of the levels left
Artifacts(levels) ==
  WriterNamed(levels)
  \cup UNION {UNION {{int_file(ConnDir("outdir", lev), lev, i),
                      cor_file(ConnDir("outdir", lev), lev, i),
                      unw_file(ConnDir("outdir", lev), lev, i)} :
                        i \in 0..(NumAcq - lev - 1)} : lev \in levels}

FunctionEntries == {"ratio", "ratio_all", "bias"}
MainEntries == {"quick_estimate", "estimate"}

\* the unwrapped closure phases of a level
UnwSeeds(a, g, c, n) == [i \in 1..n |-> [p \in Pixels |-> a * i + g * PixClass(p) + c]]

\* the labels beside the n unwrapped closure phases: every pixel in a
\* component, or one pixel of one file in none
ConnCompSeeds(n) ==
  {[i \in 1..n |-> [p \in Pixels |-> IF <<i, p>> = z THEN 0 ELSE 1 + (i % 2)]] :
     z \in {<<0, RefPix>>, <<1, RefPix>>, <<n, <<Length - 1, Width - 1>> >>}}

\* the runs whose artifacts are read to the end: the functions called on
\* their own, and main without update on a full network with the files the
\* reader looks for and, for the estimate action, a cluster
VariedData ==
  \/ entry \in FunctionEntries
  \/ /\ entry \in MainEntries /\ ~update_closure_phase
     /\ cp_files = ReaderNamed(ArtLevels(bw, level))
     /\ Range(date12_list) = Full(bw)
     /\ (entry = "estimate" => parallel)

InitBias ==
  /\ entry \in FunctionEntries \cup MainEntries \cup {"cum_seq"}
  /\ bw \in 1..MaxBw
  /\ \E net \in (CASE entry = "bias" -> BiasNetworks
                  [] entry \in MainEntries -> {Full(bw), Full(bw) \ {<<2, 3>>}}
                  [] OTHER -> {Full(bw)}) :
       date12_list = SortPairs(net)
  /\ phase = [k \in 1..Len(date12_list) |-> [p \in Pixels |-> 0]]
  /\ num_sigma = <<3, 1>> /\ threshold_amp = <<3, 10>>
  /\ box_list \in BoxLists
  /\ InitRun
  /\ level = NumAcq - 1
  /\ update_closure_phase \in (IF entry \in MainEntries THEN BOOLEAN ELSE {FALSE})
  /\ parallel \in (IF entry = "estimate" THEN BOOLEAN ELSE {FALSE})
  /\ CASE entry = "ratio" -> n_arg \in 1..(IF bw > 2 THEN bw ELSE 2) /\ mask_arg \in BOOLEAN
       [] entry = "cum_seq" -> n_arg \in 2..3 /\ mask_arg = FALSE
       [] OTHER -> n_arg = 1 /\ mask_arg = FALSE
  /\ cp_files \in
       (CASE entry \in FunctionEntries -> {ReaderNamed(ArtLevels(bw, level))}
          [] entry \in MainEntries ->
               {{}, ReaderNamed(ArtLevels(bw, level)), Artifacts(ArtLevels(bw, level))}
          [] OTHER -> {{}, {cum_cp_file(ConnDir("outdir", n_arg), n_arg)},
                       WriterNamed({n_arg})})
  /\ coef \in (IF entry \in FunctionEntries THEN Coefs ELSE {<<-1, 1>>})
  /\ IF entry = "cum_seq"
     THEN /\ art = IF cp_files = {} THEN <<>>
                   ELSE [lev \in {n_arg} |-> SeedSeries(1, 0, NumAcq)]
          /\ \E a \in 0..MaxCum, g \in 0..1, c \in 0..1 :
               unw = UnwSeeds(a, g, c, NumAcq - n_arg)
          /\ conn_comp \in ConnCompSeeds(NumAcq - n_arg)
     ELSE /\ unw = <<>>
          /\ conn_comp = <<>>
          /\ \E fine \in CumSeeds, rough \in RefSeeds, g \in 0..1 :
               /\ ~VariedData => (fine = 1 /\ rough = 1 /\ g = 0)
               /\ art = IF cp_files = {} THEN <<>>
                        ELSE [lev \in ArtLevels(bw, level) |->
                                SeedSeries(IF lev = level THEN rough ELSE fine + lev - 2,
                                           g, NumAcq)]
  /\ IdleEstimate
  /\ IdleSpan

\* ---------------------------------------------------------- actions ------
\* estimate_ratioX on the first box
EstimateRatioX ==
  /\ pc = "start" /\ entry = "ratio"
  /\ LET r == estimate_ratioX(TBase(Cardinality(get_date_list)), n_arg, level,
                              box_list[bi], mask_arg)
     IN wratio' = r.wratio /\ wratio_velocity' = r.wratio_velocity
  /\ pc' = "done"
  /\ UNCHANGED <<date12_list, phase, entry, level, num_sigma, threshold_amp, box_list,
                 bi, avg_closure_phase, num_cp, mask, files, closure_phase,
                 phase_read, err,
                 bw, coef, art, n_arg, mask_arg,
                 biasts_bw1_rough, biasts_bw1_fine, vel_mask, W, biasts_bwn,
                 mainVars, outVars,
                 runVars, spanVars, cumVars>>

\* estimate_ratioX_all on the first box
EstimateRatioXAll ==
  /\ pc = "start" /\ entry = "ratio_all"
  /\ wratio' = estimate_ratioX_all(bw, level, box_list[bi])
  /\ pc' = "done"
  /\ UNCHANGED <<date12_list, phase, entry, level, num_sigma, threshold_amp, box_list,
                 bi, avg_closure_phase, num_cp, mask, files, closure_phase,
                 phase_read, err,
                 bw, coef, art, n_arg, mask_arg, wratio_velocity,
                 biasts_bw1_rough, biasts_bw1_fine, vel_mask, W, biasts_bwn,
                 mainVars, outVars,
                 runVars, spanVars, cumVars>>

\* estimate_bias, lines 748-783
BiasRead ==
  /\ \/ pc = "start" /\ entry = "bias"
     \/ pc = "box" /\ entry = "estimate" /\ ~parallel
     \/ pc = "run"
  /\ LET r == ReadBias(box_list[bi], TBase(Cardinality(get_date_list)))
     IN IF r.err # NoError
        THEN /\ err' = r.err /\ pc' = "failed"
             /\ UNCHANGED <<vel_mask, biasts_bw1_rough, biasts_bw1_fine>>
        ELSE /\ err' = err /\ pc' = "read"
             /\ vel_mask' = r.mask
             /\ biasts_bw1_rough' = r.biasts_bw1_rough
             /\ biasts_bw1_fine' = r.biasts_bw1_fine
  /\ UNCHANGED <<date12_list, phase, entry, level, num_sigma, threshold_amp, box_list,
                 bi, avg_closure_phase, num_cp, mask, files, closure_phase,
                 phase_read,
                 bw, coef, art, n_arg, mask_arg, wratio, wratio_velocity,
                 W, biasts_bwn,
                 mainVars, outVars,
                 runVars, spanVars, cumVars>>

\* estimate_bias, lines 785-792
BiasCheck ==
  /\ pc = "read"
  /\ LET num_date   == Cardinality(get_date_list)
         num_ifgram == Len(date12_list)
     IN /\ biasts_bwn' = [t \in 1..num_date |->
                            [p \in BoxPixels(box_list[bi]) |-> Flt(0)]]
        /\ IF CountMismatch(num_ifgram, bw, num_date)
           THEN /\ err' = Exception("Modify maximum connection in ifgramStack.h5 to be consistent with input bandwidth!", <<>>)
                /\ pc' = "failed"
           ELSE /\ err' = err
                /\ pc' = "checked"
  /\ UNCHANGED <<date12_list, phase, entry, level, num_sigma, threshold_amp, box_list,
                 bi, avg_closure_phase, num_cp, mask, files, closure_phase,
                 phase_read,
                 bw, coef, art, n_arg, mask_arg, wratio, wratio_velocity,
                 biasts_bw1_rough, biasts_bw1_fine, vel_mask, W,
                 mainVars, outVars,
                 runVars, spanVars, cumVars>>

\* estimate_bias, line 795
BiasW ==
  /\ pc = "checked"
  /\ LET num_date == Cardinality(get_date_list)
         A        == get_design_matrix4timeseries(TBase(num_date)).A
         r        == get_design_matrix_W(Len(date12_list), A, bw, box_list[bi], level)
     IN IF r.err # NoError
        THEN err' = r.err /\ pc' = "failed" /\ W' = W
        ELSE err' = err /\ pc' = "invert" /\ W' = r.W
  /\ UNCHANGED <<date12_list, phase, entry, level, num_sigma, threshold_amp, box_list,
                 bi, avg_closure_phase, num_cp, mask, files, closure_phase,
                 phase_read,
                 bw, coef, art, n_arg, mask_arg, wratio, wratio_velocity,
                 biasts_bw1_rough, biasts_bw1_fine, vel_mask, biasts_bwn,
                 mainVars, outVars,
                 runVars, spanVars, cumVars>>

\* estimate_bias, lines 796-816
BiasInvert ==
  /\ pc = "invert"
  /\ biasts_bwn' = InvertBox(box_list[bi], TBase(Cardinality(get_date_list)))
  /\ pc' = IF entry = "estimate" THEN "returned" ELSE "done"
  /\ UNCHANGED <<date12_list, phase, entry, level, num_sigma, threshold_amp, box_list,
                 bi, avg_closure_phase, num_cp, mask, files, closure_phase,
                 phase_read, err,
                 bw, coef, art, n_arg, mask_arg, wratio, wratio_velocity,
                 biasts_bw1_rough, biasts_bw1_fine, vel_mask, W,
                 mainVars, outVars,
                 runVars, spanVars, cumVars>>

\* the series of a box, each date indexed from the corner of the box
LocalSeries(box, ts) == [t \in DOMAIN ts |-> Local(box, ts[t])]

\* main, lines 927-930, and compute_unwrap_closure_phase, lines 367-384, for
\* the level 2
MainUpdate ==
  /\ pc = "start" /\ entry \in MainEntries /\ update_closure_phase
  /\ closure_phase' = [i \in 1..(Cardinality(get_date_list) - ConnLevel) |->
                          [p \in Pixels |-> 0]]
  /\ bi' = 1
  /\ pc' = "closure_boxes"
  /\ UNCHANGED <<date12_list, phase, entry, level, num_sigma, threshold_amp, box_list,
                 avg_closure_phase, num_cp, mask, files, phase_read, err, bw, coef,
                 art, n_arg, mask_arg, wratio, wratio_velocity, biasts_bw1_rough,
                 biasts_bw1_fine, vel_mask, W, biasts_bwn, update_closure_phase,
                 parallel, cp_files, unw, tsbias, Wratio_h5, bias_approx_h5, bias_h5,
                 runVars, spanVars, cumVars>>

\* quick_bias_correction, lines 651-681
QuickLayoutWratio ==
  /\ pc = "start" /\ entry = "quick_estimate" /\ ~update_closure_phase
  /\ Wratio_h5' = [wratio |-> layout_hdf5(bw), bias_velocity |-> layout_hdf5(bw)]
  /\ pc' = "wratio_boxes"
  /\ UNCHANGED <<date12_list, phase, entry, level, num_sigma, threshold_amp, box_list,
                 bi, avg_closure_phase, num_cp, mask, files, closure_phase, phase_read,
                 err, bw, coef, art, n_arg, mask_arg, wratio, wratio_velocity,
                 biasts_bw1_rough, biasts_bw1_fine, vel_mask, W, biasts_bwn,
                 update_closure_phase, parallel, cp_files, unw, tsbias, bias_approx_h5,
                 bias_h5,
                 runVars, spanVars, cumVars>>

\* lines 696-715 for one box: the ratios of the levels 1..bw, written to the
\* two datasets of f
RatioBlock(f, box, tbase) ==
  LET levels == <<level>> \o [i \in 1..(bw - 1) |-> i + 1]
  IN IF FirstMissing(levels) # NoError
     THEN [err |-> FirstMissing(levels), file |-> f]
     ELSE LET r == Array([idx \in 1..bw |-> estimate_ratioX(tbase, idx, level, box, TRUE)])
              w_ratios == [idx \in 1..bw |-> r[idx].wratio]
              w_ratios_velocity == [idx \in 1..bw |-> r[idx].wratio_velocity]
              block == Block(box, bw)
          IN [err  |-> NoError,
              file |-> [wratio |-> write_hdf5_block(f.wratio,
                                      LocalSeries(box, w_ratios), block),
                        bias_velocity |-> write_hdf5_block(f.bias_velocity,
                                      LocalSeries(box, w_ratios_velocity), block)]]

\* quick_bias_correction, one pass of the loop of lines 687-715
QuickRatioBox ==
  /\ pc = "wratio_boxes"
  /\ LET r == RatioBlock(Wratio_h5, box_list[bi], TBase(Cardinality(get_date_list)))
     IN IF r.err # NoError
        THEN err' = r.err /\ pc' = "failed" /\ bi' = bi /\ Wratio_h5' = Wratio_h5
        ELSE /\ err' = err
             /\ Wratio_h5' = r.file
             /\ IF bi < Len(box_list)
                THEN bi' = bi + 1 /\ pc' = pc
                ELSE bi' = bi /\ pc' = "approx_layout"
  /\ UNCHANGED <<date12_list, phase, entry, level, num_sigma, threshold_amp, box_list,
                 avg_closure_phase, num_cp, mask, files, closure_phase, phase_read, bw,
                 coef, art, n_arg, mask_arg, wratio, wratio_velocity, biasts_bw1_rough,
                 biasts_bw1_fine, vel_mask, W, biasts_bwn, update_closure_phase,
                 parallel, cp_files, unw, tsbias, bias_approx_h5, bias_h5,
                 runVars, spanVars, cumVars>>

\* quick_bias_correction, lines 718-724
QuickLayoutApprox ==
  /\ pc = "approx_layout"
  /\ bias_approx_h5' = layout_hdf5(Cardinality(get_date_list))
  /\ bi' = 1
  /\ pc' = "approx_boxes"
  /\ UNCHANGED <<date12_list, phase, entry, level, num_sigma, threshold_amp, box_list,
                 avg_closure_phase, num_cp, mask, files, closure_phase, phase_read,
                 err, bw, coef, art, n_arg, mask_arg, wratio, wratio_velocity,
                 biasts_bw1_rough, biasts_bw1_fine, vel_mask, W, biasts_bwn,
                 update_closure_phase, parallel, cp_files, unw, tsbias, Wratio_h5,
                 bias_h5,
                 runVars, spanVars, cumVars>>

\* lines 726-731 for one box
ApproxBlock(f, box, num_date) ==
  IF FirstMissing(<<level, 2>>) # NoError
  THEN [err |-> FirstMissing(<<level, 2>>), tsbias |-> <<>>, file |-> f]
  ELSE LET ts == estimate_tsbias_approx(level, bw, TBase(num_date),
                                        DateOrdinal(num_date), box)
       IN [err |-> NoError, tsbias |-> ts,
           file |-> write_hdf5_block(f, LocalSeries(box, Div100(ts)),
                                     Block(box, num_date))]

\* quick_bias_correction, one pass of the loop of lines 725-731
QuickApproxBox ==
  /\ pc = "approx_boxes"
  /\ LET r == ApproxBlock(bias_approx_h5, box_list[bi], Cardinality(get_date_list))
     IN IF r.err # NoError
        THEN /\ err' = r.err /\ pc' = "failed" /\ bi' = bi
             /\ UNCHANGED <<tsbias, bias_approx_h5>>
        ELSE /\ err' = err
             /\ tsbias' = r.tsbias
             /\ bias_approx_h5' = r.file
             /\ IF bi < Len(box_list)
                THEN bi' = bi + 1 /\ pc' = pc
                ELSE bi' = bi /\ pc' = "done"
  /\ UNCHANGED <<date12_list, phase, entry, level, num_sigma, threshold_amp, box_list,
                 avg_closure_phase, num_cp, mask, files, closure_phase, phase_read, bw,
                 coef, art, n_arg, mask_arg, wratio, wratio_velocity, biasts_bw1_rough,
                 biasts_bw1_fine, vel_mask, W, biasts_bwn, update_closure_phase,
                 parallel, cp_files, unw, Wratio_h5, bias_h5,
                 runVars, spanVars, cumVars>>

\* a plausible slip of line 858: the thread count of the environment passed on
threads_unpinned == OrigThreads

\* line 858: the argument "1" of cluster.set_num_threads
threads_arg == "1"

\* cluster.set_num_threads(n): the environment afterwards and the saved one
set_num_threads(env, n) == [env |-> n, dict |-> env]

\* cluster.roll_back_num_threads(num_threads_dict): the environment afterwards
roll_back_num_threads(env, d) == d

\* bias_correction, lines 830-858
BiasLayout ==
  /\ pc = "start" /\ entry = "estimate" /\ ~update_closure_phase
  /\ bias_h5' = layout_hdf5(Cardinality(get_date_list))
  /\ LET r == set_num_threads(num_threads, threads_arg)
     IN num_threads' = r.env /\ num_threads_dict' = r.dict
  /\ pc' = "box"
  /\ UNCHANGED <<date12_list, phase, entry, level, num_sigma, threshold_amp, box_list,
                 bi, avg_closure_phase, num_cp, mask, files, closure_phase, phase_read,
                 err, bw, coef, art, n_arg, mask_arg, wratio, wratio_velocity,
                 biasts_bw1_rough, biasts_bw1_fine, vel_mask, W, biasts_bwn,
                 update_closure_phase, parallel, cp_files, unw, tsbias, Wratio_h5,
                 bias_approx_h5, cluster_obj, exit_code, spanVars, cumVars>>

\* bias_correction, lines 873-884: the output array and the cluster opened
ClusterOpen ==
  /\ pc = "box" /\ entry = "estimate" /\ parallel
  /\ tsbias' = [t \in 1..Cardinality(get_date_list) |->
                  [p \in BoxPixels(box_list[bi]) |-> Flt(0)]]
  /\ cluster_obj' = "open"
  /\ pc' = "run"
  /\ UNCHANGED <<date12_list, phase, entry, level, num_sigma, threshold_amp, box_list,
                 bi, avg_closure_phase, num_cp, mask, files, closure_phase, phase_read,
                 err, bw, coef, art, n_arg, mask_arg, wratio, wratio_velocity,
                 biasts_bw1_rough, biasts_bw1_fine, vel_mask, W, biasts_bwn,
                 update_closure_phase, parallel, cp_files, unw, Wratio_h5,
                 bias_approx_h5, bias_h5, num_threads, num_threads_dict, exit_code,
                 spanVars, cumVars>>

\* t[:-1]
DropLast(t) == SubSeq(t, 1, Len(t) - 1)

\* a plausible slip of line 889: the first box of the list in results
results_first_box(ts, box) == <<ts, box_list[1]>>

\* line 889: results=[tsbias, box]
results_arg(ts, box) == <<ts, box>>

\* cluster_obj.run(func, func_data, results): the array of what func
\* returned, and the box of results handed back
cluster_run(func_result, results) == <<func_result[1], results[2]>>

\* bias_correction, lines 870-899 after estimate_bias has returned: without
\* a cluster the result is the tuple (biasts_bwn, box) less its last element,
\* which cannot be divided; with a cluster the run returns the array and the
\* box, the cluster is closed and the block written; after the last block the
\* thread count is rolled back, lines 901-905
BiasWriteBlock ==
  /\ pc = "returned"
  /\ IF ~parallel
     THEN /\ tsbias' = DropLast(<<biasts_bwn, box_list[bi]>>)
          /\ err' = TypeError("unsupported operand type(s) for /: 'tuple' and 'int'")
          /\ pc' = "failed" /\ bi' = bi /\ bias_h5' = bias_h5
          /\ UNCHANGED <<cluster_obj, num_threads>>
     ELSE LET r == cluster_run(<<biasts_bwn, box_list[bi]>>,
                               results_arg(tsbias, box_list[bi]))
          IN /\ tsbias' = r[1]
             /\ err' = err
             /\ cluster_obj' = "closed"
             /\ bias_h5' = write_hdf5_block(bias_h5,
                              LocalSeries(box_list[bi], Div100(r[1])),
                              Block(r[2], Cardinality(get_date_list)))
             /\ IF bi < Len(box_list)
                THEN bi' = bi + 1 /\ pc' = "box" /\ num_threads' = num_threads
                ELSE /\ bi' = bi /\ pc' = "done"
                     /\ num_threads' = roll_back_num_threads(num_threads, num_threads_dict)
  /\ UNCHANGED <<date12_list, phase, entry, level, num_sigma, threshold_amp, box_list,
                 avg_closure_phase, num_cp, mask, files, closure_phase, phase_read, bw,
                 coef, art, n_arg, mask_arg, wratio, wratio_velocity, biasts_bw1_rough,
                 biasts_bw1_fine, vel_mask, W, biasts_bwn, update_closure_phase,
                 parallel, cp_files, unw, Wratio_h5, bias_approx_h5,
                 num_threads_dict, exit_code, spanVars, cumVars>>

\* src/mintpy/__main__.py, lines 517-543: what main returns when the sub-command
\* returned (None) or raised
\* a plausible slip of line 537: the failure reported as success
main_return_ok(e) == IF e = NoError THEN None ELSE PyInt(EX_OK)

main_return(e) == IF e = NoError THEN None ELSE PyInt(EX_FAILURE)

\* sys.exit(v): None is status 0
sys_exit(v) == IF v.none THEN 0 ELSE v.value

\* src/mintpy/__main__.py, line 547: sys.exit(main()) once the estimate
\* action has ended
CliExit ==
  /\ entry \in MainEntries /\ pc \in {"done", "failed"} /\ exit_code = <<>>
  /\ exit_code' = <<sys_exit(main_return(err))>>
  /\ UNCHANGED <<maskVars, biasVars, mainVars, outVars,
                 num_threads, num_threads_dict, cluster_obj, spanVars, cumVars>>

\* cum_seq_unw_closure_phase on the directory of the level n_arg
CumSeqUnw ==
  /\ pc = "start" /\ entry = "cum_seq"
  /\ LET r == cum_seq_unw_closure_phase(n_arg, ConnDir("outdir", n_arg),
                                        Cardinality(get_date_list), unw, conn_comp,
                                        cp_files, art, common_mask)
     IN cp_files' = r.files /\ art' = r.series /\ common_mask' = r.mask
  /\ pc' = "written"
  /\ UNCHANGED <<date12_list, phase, entry, level, num_sigma, threshold_amp, box_list,
                 bi, avg_closure_phase, num_cp, mask, files, closure_phase, phase_read,
                 err, bw, coef, n_arg, mask_arg, wratio, wratio_velocity,
                 biasts_bw1_rough, biasts_bw1_fine, vel_mask, W, biasts_bwn,
                 update_closure_phase, parallel, unw, tsbias, Wratio_h5,
                 bias_approx_h5, bias_h5,
                 runVars, spanVars, conn_comp>>

\* seq2cum_closure_phase of the level n_arg, after cum_seq_unw_closure_phase
SeqToCum ==
  /\ pc = "written"
  /\ LET r == ReadSeqCum(n_arg, box_list[bi])
     IN IF r.err # NoError
        THEN err' = r.err /\ pc' = "failed" /\ tsbias' = tsbias
        ELSE err' = err /\ pc' = "done" /\ tsbias' = r.val
  /\ UNCHANGED <<date12_list, phase, entry, level, num_sigma, threshold_amp, box_list,
                 bi, avg_closure_phase, num_cp, mask, files, closure_phase, phase_read,
                 bw, coef, art, n_arg, mask_arg, wratio, wratio_velocity,
                 biasts_bw1_rough, biasts_bw1_fine, vel_mask, W, biasts_bwn,
                 update_closure_phase, parallel, cp_files, unw, Wratio_h5,
                 bias_approx_h5, bias_h5,
                 runVars, spanVars, cumVars>>

NextBias ==
  \/ EstimateRatioX
  \/ EstimateRatioXAll
  \/ BiasRead
  \/ BiasCheck
  \/ BiasW
  \/ BiasInvert
  \/ MainUpdate
  \/ ClosureBox
  \/ QuickLayoutWratio
  \/ QuickRatioBox
  \/ QuickLayoutApprox
  \/ QuickApproxBox
  \/ BiasLayout
  \/ ClusterOpen
  \/ BiasWriteBlock
  \/ CliExit
  \/ CumSeqUnw
  \/ SeqToCum

SpecBias == InitBias /\ [][NextBias]_vars

\* =================================================== ratio and bias =====
\* the box the estimate actions work on
EstimateBox == BoxPixels(box_list[bi])

\* last slice of the artifact of connection level n at pixel p
CumLast(n, p) == art[n][Len(art[n])][p]

InUnitInterval(a) == a.k = "num" /\ 0 <= a.n /\ a.n <= a.d

\* the slices of the ratio a finished estimate_ratioX (mask off) or
\* estimate_ratioX_all returned for a connection level above 1
RatioSlices ==
  IF pc = "done" /\ entry = "ratio" /\ n_arg > 1 /\ ~mask_arg
  THEN {<<n_arg, wratio>>}
  ELSE IF pc = "done" /\ entry = "ratio_all"
       THEN {<<n, wratio[n]>> : n \in 2..bw}
       ELSE {}

\* C8 as stated: every ratio returned for a connection level n > 1 is a number
\* in [0,1], also where the reference level's cumulative closure phase is 0.
C8_RatioInUnitInterval ==
  \A r \in RatioSlices : \A p \in EstimateBox : InUnitInterval(r[2][p])

\* C8, amended: the ratio is a number in [0,1] at every pixel, except that it
\* is NaN where the cumulative closure phases of level n and of the reference
\* level are both 0 (0/0); a nonzero phase over 0 is clamped like any other.
C8_RatioInUnitIntervalOrNaN ==
  \A r \in RatioSlices : \A p \in EstimateBox :
     IF CumLast(r[1], p) = Flt(0) /\ CumLast(level, p) = Flt(0)
     THEN r[2][p] = NaN
     ELSE InUnitInterval(r[2][p])

\* estimate_ratioX has returned the ratio of a level above 1 for a box with a
\* pixel of 0/0 and a pixel where the reference level is not 0
C8_Witness ==
  /\ pc = "done" /\ entry = "ratio" /\ n_arg > 1 /\ ~mask_arg
  /\ \E p \in EstimateBox : CumLast(n_arg, p) = Flt(0) /\ CumLast(level, p) = Flt(0)
  /\ \E p \in EstimateBox : CumLast(level, p) # Flt(0)

\* a 5-acquisition, bandwidth-2, reference-level-4 full network whose
\* artifacts are zero at every pixel and date
ZeroArtifactScenario ==
  /\ entry = "bias"
  /\ Cardinality(get_date_list) = 5 /\ bw = 2 /\ level = 4
  /\ Range(date12_list) = {d \in (1..5) \X (1..5) : d[1] < d[2] /\ d[2] - d[1] <= 2}
  /\ \A lev \in DOMAIN art : \A t \in 1..Len(art[lev]) : \A p \in Pixels :
       art[lev][t][p] = Flt(0)

\* C9 as stated: with zero artifacts on the 5-acquisition, bandwidth-2,
\* reference-level-4 full network, estimate_bias returns a bias time series
\* that is exactly 0 at every pixel and date.
C9_ZeroArtifactsZeroBias ==
  (ZeroArtifactScenario /\ pc = "done") =>
     \A t \in 1..Len(biasts_bwn) : \A p \in EstimateBox : biasts_bwn[t][p] = Flt(0)

\* the number of interferograms agrees with bw*(2N - bw - 1)/2
CountsAgree ==
  2 * Len(date12_list) = bw * (2 * Cardinality(get_date_list) - bw - 1)

\* C10: estimate_bias goes past its check only when the number of
\* interferograms is bw*(2N - bw - 1)/2; when it is not, the run has ended in
\* the Exception with W not built and no pixel inverted (the output still all
\* zero); when it is, the check raised nothing: a later failure is not the
\* Exception of the check.
C10_CountCheckedBeforeInversion ==
  entry = "bias" =>
    /\ pc \in {"checked", "invert", "done"} => CountsAgree
    /\ (pc = "failed" /\ ~CountsAgree) =>
         /\ err.type = "Exception"
         /\ W = <<>>
         /\ \A t \in 1..Len(biasts_bwn) : \A p \in EstimateBox :
              biasts_bwn[t][p] = Flt(0)
    /\ (pc = "failed" /\ CountsAgree) => err.type # "Exception"

\* estimate_bias has refused a network with more interferograms than expected
C10_Witness ==
  /\ entry = "bias" /\ pc = "failed" /\ err.type = "Exception"
  /\ 2 * Len(date12_list) > bw * (2 * Cardinality(get_date_list) - bw - 1)

\* =========================================== scaling matrix and mask ====
\* connection level of interferogram i: column of +1 minus column of -1
ConnOf(i) == DateIndex(date12_list[i][2]) - DateIndex(date12_list[i][1])

\* row of W, of the flattened series and of the flattened mask for the pixel
\* p of the box: y*box_width + x, counted from 1
FlatRow(p) ==
  LET box == box_list[bi]
  IN (p[1] - box[2]) * (box[3] - box[1]) + (p[2] - box[1]) + 1

\* decay ratio of level c at the pixel p
RatioAt(c, p) ==
  IF c = 1 THEN Flt(1)
  ELSE Clamp01(FSub(Flt(1), FDiv(CumLast(c, p), CumLast(level, p))))

\* C12: once estimate_bias is past its count check with an interferogram whose
\* connection level is above bw, get_design_matrix_W has ended the run in an
\* IndexError and W was never built: no column holds another level's ratio.
C12_LevelAboveBwFails ==
  (entry = "bias" /\ pc \in {"invert", "done", "failed"} /\ CountsAgree
     /\ \E i \in 1..Len(date12_list) : ConnOf(i) > bw)
  => (pc = "failed" /\ err.type = "IndexError" /\ W = <<>>)

\* get_design_matrix_W has met a level above bw and failed
C12_Witness ==
  /\ entry = "bias" /\ pc = "failed" /\ err.type = "IndexError"
  /\ \E i \in 1..Len(date12_list) : ConnOf(i) > bw

\* C13: when W is built, its entry at row y*box_width + x and column i is the
\* decay ratio of the level of interferogram i at the pixel (y,x), and the
\* flattened rough series and mask of estimate_bias use the same row.
C13_WHoldsRatioOfLevel ==
  (entry = "bias" /\ pc \in {"invert", "done"}) =>
    \A p \in EstimateBox :
      /\ \A i \in 1..Len(date12_list) : W[FlatRow(p)][i] = RatioAt(ConnOf(i), p)
      /\ \A t \in 1..Len(biasts_bw1_rough) :
           biasts_bw1_rough[t][FlatRow(p)] = art[level][t][p]
      /\ vel_mask[FlatRow(p)] \in {0, 1}

\* W is built for a box of several rows and columns whose pixels (0,1) and
\* (1,0) have different rows of W
C13_Witness ==
  /\ entry = "bias" /\ pc \in {"invert", "done"}
  /\ LET box == box_list[bi]
     IN /\ box[3] - box[1] > 1 /\ box[4] - box[2] > 1
        /\ W[FlatRow(<<box[2], box[1] + 1>>)] # W[FlatRow(<<box[2] + 1, box[1]>>)]

\* the significance test of estimate_ratioX at the pixel p: the velocity of
\* the reference level against 0.1
RatioTestInsignificant(p) ==
  LET num_date == Cardinality(get_date_list)
  IN FLess(FAbs(FDiv(FDiv(CumLast(level, p), CoefF), Flt(num_date - 1))), Num(1, 10))

\* C14 as stated: estimate_bias inverts a pixel from the rough series exactly
\* when the significance test of estimate_ratioX marks it insignificant.
C14_SameSignificanceTest ==
  (entry = "bias" /\ pc \in {"read", "checked", "invert", "done"}) =>
    \A p \in EstimateBox : (vel_mask[FlatRow(p)] = 0) <=> RatioTestInsignificant(p)

\* ============================================ approximate variant =======
\* C11 as stated: on a network whose number of interferograms is not
\* bw*(2N - bw - 1)/2, quick_bias_correction derives no bias time series,
\* writes no bias_timeseries_approx.h5 and does not end normally.
C11_ApproxChecksCount ==
  (entry = "quick_estimate" /\ ~CountsAgree) =>
    (tsbias = <<>> /\ bias_approx_h5 = <<>> /\ pc # "done")

\* ============================================= first date pinned ========
\* the series has one slice per acquisition date, and its first slice is 0
\* at every pixel of the slice
PinnedSeries(ts) ==
  /\ Len(ts) = Cardinality(get_date_list)
  /\ \A p \in DOMAIN ts[1] : ts[1][p] = Flt(0)

\* the approximate estimate divides by 1 - wratio at the pixel p where the
\* artifact of level 2 ends at 0 and the one of the reference level does not:
\* the ratio of line 628 is undefined there
RatioUndefinedAt(p) == CumLast(2, p) = Flt(0) /\ CumLast(level, p) # Flt(0)

OneBlock == RowBox(0, Length)

\* the file bias_correction leaves when the raster is processed as the one
\* block OneBlock: zeros when the run ends before its first write, the
\* inversion of each pixel, over 100, otherwise
OneBlockFile ==
  LET num_date == Cardinality(get_date_list)
      tbase    == TBase(num_date)
      AB       == get_design_matrix4timeseries(tbase)
      r        == ReadBias(OneBlock, tbase)
      w        == get_design_matrix_W(Len(date12_list), AB.A, bw, OneBlock, level)
      B_inv    == pinv(DropLastColumn(AB.B))
      Series(k) == InvertSeries(w.W[k],
                     IF r.mask[k] = 0
                     THEN [t \in 1..num_date |-> r.biasts_bw1_rough[t][k]]
                     ELSE [t \in 1..num_date |-> r.biasts_bw1_fine[t][k]],
                     AB.A, B_inv, tbase)
  IN IF \/ ~parallel
        \/ r.err # NoError
        \/ CountMismatch(Len(date12_list), bw, num_date)
        \/ w.err # NoError
     THEN layout_hdf5(num_date)
     ELSE LET ts == Array([k \in 1..(Length * Width) |-> Series(k)])
          IN [t \in 1..num_date |-> [p \in Pixels |->
                FDiv(ts[PixelIndex(OneBlock, p)][t], Flt(100))]]

\* C16: when bias_correction has ended, with or without an error, the file
\* bias_timeseries.h5 is at every pixel the file of the run on the raster as
\* one block, whatever the list of blocks and their order.
C16_TilingIndependent ==
  (entry = "estimate" /\ pc \in {"done", "failed"} /\ bias_h5 # <<>>) =>
    bias_h5 = OneBlockFile

\* bias_correction has ended normally on two blocks, the lower one first,
\* and wrote values other than 0 in both
C16_Witness ==
  /\ entry = "estimate" /\ pc = "done"
  /\ Len(box_list) = 2 /\ box_list[1][2] > 0
  /\ \A i \in 1..2 : \E p \in BoxPixels(box_list[i]) :
       bias_h5[Len(bias_h5)][p] # Flt(0)

\* ================================================ artifact files ========
\* C17 as stated: once cum_seq_unw_closure_phase has run for the level n in
\* the directory of that level, the file seq2cum_closure_phase opens for n is
\* the file written, and the read does not fail.
C17_ReaderOpensWrittenFile ==
  (entry = "cum_seq" /\ pc # "start") =>
    /\ seq_cp_file(n_arg) = cum_cp_file(ConnDir("outdir", n_arg), n_arg)
    /\ pc # "failed"

\* C18 as stated: with the update flag on, main gets through the closure
\* phase computation of every level: the run does not end in it, and when
\* the run has ended the time series file of every level the estimators read
\* is written.
C18_ComputedBeforeRead ==
  (entry \in MainEntries /\ update_closure_phase /\ pc \in {"done", "failed"}) =>
    /\ err.type # "NameError"
    /\ \A lev \in ArtLevels(bw, level) :
         cum_cp_file(ConnDir("outdir", lev), lev) \in cp_files

\* C19 as stated: when every artifact of a level exists, a further
\* closure phase computation of that level ends without an error.
C19_RerunSkips ==
  (entry \in MainEntries /\ update_closure_phase
     /\ Artifacts({ConnLevel}) \subseteq cp_files) => pc # "failed"

\* C20 as stated: with the update flag on the estimate actions run the
\* closure phase computation for every needed level, so that a run that has
\* ended has left the artifacts of every level; with the flag off they
\* leave the closure phase files as they were.
C20_FlagDecides ==
  /\ (entry \in MainEntries /\ update_closure_phase /\ pc \in {"done", "failed"}) =>
       Artifacts(ArtLevels(bw, level)) \subseteq cp_files
  /\ (entry \in MainEntries /\ ~update_closure_phase) =>
       cp_files \in {{}, ReaderNamed(ArtLevels(bw, level)),
                     Artifacts(ArtLevels(bw, level))}

\* ============================ cumulative series and its common mask =====
\* slice k (counted from 0) at pixel p of the series the closure phases c of
\* level n give over num_date dates
CumSlice(c, n, num_date, k, p) ==
  LET m == num_date - n
      S(j) == SumSeq(Array([i \in 1..j |-> c[i][p]]))
  IN IF k = 0 THEN Flt(0)
     ELSE IF k <= m THEN Num(S(k), n)
     ELSE Num(S(m) + (k - m) * c[m][p], n)

\* the closure phases after the value at the reference pixel is subtracted
Referenced(c) == [i \in 1..Len(c) |-> [p \in Pixels |-> c[i][p] - c[i][RefPix]]]

\* cum_seq_unw_closure_phase has written its two files in this run
CumSeqWritten == entry = "cum_seq" /\ pc # "start" /\ common_mask # <<>>

\* every closure phase has a component label of at least 1 at pixel p
LabelledThroughout(p) == \A i \in 1..Len(conn_comp) : conn_comp[i][p] >= 1

InBiasCorrection == entry = "estimate" /\ bias_h5 # <<>>

\* bias_correction is at work on the block bi
BlockInProcess == pc \in {"box", "run", "read", "checked", "invert", "returned"}

\* the block of the file over the box is as writefile.layout_hdf5 left it
Unwritten(box) ==
  \A t \in DOMAIN bias_h5, p \in BoxPixels(box) : bias_h5[t][p] = Flt(0)

\* C21: once a block of bias_correction has failed, the run stays failed at
\* that block: no step dispatches a later block or changes
\* bias_timeseries.h5, the failed block and the blocks after it are as the
\* layout left them, and the exit status of the command is not 0.
C21_FailureAborts ==
  /\ [](InBiasCorrection /\ pc = "failed" =>
          /\ \A i \in bi..Len(box_list) : Unwritten(box_list[i])
          /\ exit_code # <<>> => exit_code[1] # 0)
  /\ [][InBiasCorrection /\ pc = "failed" =>
          pc' = "failed" /\ bi' = bi /\ bias_h5' = bias_h5 /\ tsbias' = tsbias]_vars

\* a block failed with another block still to come, and the command exited
C21_Witness ==
  /\ InBiasCorrection /\ pc = "failed"
  /\ bi < Len(box_list)
  /\ exit_code = <<EX_FAILURE>>

\* C22: with a cluster, only the step of the coordinator taken when the
\* cluster has returned the result of the block bi changes
\* bias_timeseries.h5, one block a step: the cluster is open before and closed
\* after it, inside the box of that block the file becomes the result over
\* 100, and outside that box the file is left as it was.
C22_WriteAfterRunInEchoedBox ==
  [][(InBiasCorrection /\ parallel) =>
       /\ bias_h5' # bias_h5 => pc = "returned"
       /\ (pc = "returned" /\ pc' # pc) =>
            /\ cluster_obj = "open" /\ cluster_obj' = "closed"
            /\ \A t \in DOMAIN bias_h5, p \in Pixels :
                 IF p \in BoxPixels(box_list[bi])
                 THEN bias_h5'[t][p] = FDiv(biasts_bwn[t][p], Flt(100))
                 ELSE bias_h5'[t][p] = bias_h5[t][p]]_vars

\* the second of two blocks has been written with values other than 0, the
\* cluster closed
C22_Witness ==
  /\ InBiasCorrection /\ parallel /\ pc = "done" /\ cluster_obj = "closed"
  /\ Len(box_list) = 2 /\ bi = 2
  /\ \E p \in BoxPixels(box_list[2]) : bias_h5[Len(bias_h5)][p] # Flt(0)

\* C23: in bias_correction the thread count is 1 from before the first block
\* to the last step of the last block, and when bias_correction has returned
\* it is the count from before the call.
C23_ThreadsPinnedThenRestored ==
  InBiasCorrection =>
    /\ BlockInProcess => num_threads = "1" /\ num_threads_dict = OrigThreads
    /\ pc = "done" => num_threads = OrigThreads

\* bias_correction has returned after two blocks
C23_Witness ==
  /\ InBiasCorrection /\ pc = "done" /\ bi = 2
  /\ num_threads_dict = OrigThreads /\ num_threads = OrigThreads

\* C29 as stated: without a cluster, once estimate_bias has returned for a
\* block, the data bias_correction writes is the array it returned, as with
\* a cluster, and no error is raised.
C29_NonParallelWritesArray ==
  (InBiasCorrection /\ ~parallel /\ tsbias # <<>>) =>
    tsbias = biasts_bwn /\ err = NoError

\* C30 as stated: when bias_correction has ended, normally or by an error,
\* no cluster it opened is still open and the thread count is the one from
\* before the call.
C30_ReleasedOnEveryEnd ==
  (InBiasCorrection /\ pc \in {"done", "failed"}) =>
    cluster_obj # "open" /\ num_threads = num_threads_dict

\* ======================================== reference before the sum ======
\* C24 as stated: seq_closure_phase, called on a stack with every triplet of
\* the level, has read the phase of the block when it ends, and the phase
\* both functions sum is, at every pixel of every interferogram, the phase
\* read less the reference phase of that interferogram.
C24_ReferencedBeforeSummed ==
  /\ (entry = "closure" /\ pc \in {"done", "failed"}
       /\ TripletsFound = TripletsExpected) => phase_read
  /\ (entry \in {"mask", "closure"} /\ phase_read) =>
       \A k \in 1..Len(date12_list), p \in Pixels :
         Dereference(RowBox(0, Length))[k][p] = phase[k][p] - ref_phase[k]

\* ================================== one ratio and all the ratios ========
\* C25: for the same artifacts and box, the ratio estimate_ratioX returns for
\* a level n in 1..bw with mask off is slice n of what estimate_ratioX_all
\* returns, every slice n in 1..bw of estimate_ratioX_all is the ratio of
\* estimate_ratioX for n, and for n = 1 both are 1 at every pixel.
C25_SliceIsRatio ==
  LET tbase == TBase(Cardinality(get_date_list))
      box   == box_list[bi]
  IN /\ (pc = "done" /\ entry = "ratio" /\ ~mask_arg /\ n_arg <= bw) =>
          /\ wratio = estimate_ratioX_all(bw, level, box)[n_arg]
          /\ n_arg = 1 => \A p \in BoxPixels(box) : wratio[p] = Flt(1)
     /\ (pc = "done" /\ entry = "ratio_all") =>
          /\ \A n \in 1..bw :
               wratio[n] = estimate_ratioX(tbase, n, level, box, FALSE).wratio
          /\ \A p \in BoxPixels(box) : wratio[1][p] = Flt(1)

\* estimate_ratioX_all has returned, for a bandwidth of 2 or more, a slice 2
\* with a ratio under 1 at one pixel and a ratio that is not a number at another
C25_Witness ==
  /\ pc = "done" /\ entry = "ratio_all" /\ bw >= 2
  /\ \E p \in EstimateBox : InUnitInterval(wratio[2][p]) /\ wratio[2][p] # Flt(1)
  /\ \E p \in EstimateBox : wratio[2][p] = NaN

\* ============================== fine and coarse approximate bias ========
\* the box of the series estimate_tsbias_approx returned last
ApproxBox == CHOOSE b \in Range(box_list) : BoxPixels(b) = DOMAIN tsbias[1]

\* the ratio estimate_ratioX gives for level n at pixel q of ApproxBox, 0
\* where it is not a number
Ratio0(n, q) ==
  LET w == estimate_ratioX(TBase(Cardinality(get_date_list)), n, level,
                           ApproxBox, FALSE).wratio[q]
  IN IF w.k = "nan" THEN Flt(0) ELSE w

\* the ratio of level 2 at q is within 0.1 of 1
NearOne(q) == FLess(FAbs(FSub(Ratio0(2, q), Flt(1))), Num(1, 10))

\* the level p of the run
LevelP == p_of(DateOrdinal(Cardinality(get_date_list)), bw)

\* the fine and the coarse estimate at date index t and pixel q
FinePath(t, q) ==
  FMul(FDiv(art[2][t][q], CoefF),
       FDiv(Ratio0(LevelP, q), FSub(Flt(1), Ratio0(2, q))))

CoarsePath(t, q) == FMul(FDiv(art[level][t][q], CoefF), Ratio0(LevelP, q))

\* C26: the series estimate_tsbias_approx returns is at each pixel and date
\* the fine estimate (the level-2 series over coef times ratio_p/(1 - ratio_2)),
\* unless the level-2 ratio is within 0.1 of 1 there, where it is the coarse
\* estimate (the reference-level series over coef times ratio_p); it is a
\* finite number everywhere.
C26_FineUnlessNearOne ==
  (entry = "quick_estimate" /\ tsbias # <<>>) =>
    \A t \in 1..Len(tsbias), q \in DOMAIN tsbias[1] :
      /\ tsbias[t][q] = IF NearOne(q) THEN CoarsePath(t, q) ELSE FinePath(t, q)
      /\ tsbias[t][q].k = "num"

\* a series was returned for a box with a pixel on the coarse path and a
\* pixel on the fine path, neither 0 at the last date
C26_Witness ==
  /\ entry = "quick_estimate" /\ tsbias # <<>>
  /\ \E q \in DOMAIN tsbias[1] : NearOne(q) /\ tsbias[Len(tsbias)][q] # Flt(0)
  /\ \E q \in DOMAIN tsbias[1] : ~NearOne(q) /\ tsbias[Len(tsbias)][q] # Flt(0)

\* ============================================ average time spans ========
\* the strictly increasing lists of 2..MaxDates day numbers that start at
\* day 1 with at most MaxGap days from one to the next
DateLists ==
  UNION {{[i \in 1..n |-> 1 + SumSeq(SubSeq(g, 1, i - 1))] :
            g \in [1..(n - 1) -> 1..MaxGap]} : n \in 2..MaxDates}

\* the span functions called on a list of dates, with a bandwidth below
\* the number of dates
InitSpan ==
  /\ entry = "span"
  /\ dates \in DateLists
  /\ bw \in 1..(Len(dates) - 1)
  /\ span_conn = <<>> /\ span_bw = <<>> /\ p_level = 0
  /\ date12_list = <<>> /\ phase = <<>> /\ level = NumAcq - 1
  /\ num_sigma = <<3, 1>> /\ threshold_amp = <<3, 10>>
  /\ box_list = <<RowBox(0, Length)>>
  /\ InitRun
  /\ coef = <<-1, 1>> /\ art = <<>> /\ n_arg = 1 /\ mask_arg = FALSE
  /\ update_closure_phase = FALSE /\ parallel = FALSE /\ cp_files = {} /\ unw = <<>>
  /\ conn_comp = <<>>
  /\ IdleEstimate

\* estimate_tsbias_approx, line 614
AverageConnN ==
  /\ entry = "span" /\ pc = "start"
  /\ span_conn' = [n \in 1..bw |-> average_connN_igrams(dates, n)]
  /\ pc' = "conn"
  /\ UNCHANGED <<date12_list, phase, entry, level, num_sigma, threshold_amp, box_list,
                 bi, avg_closure_phase, num_cp, mask, files, closure_phase,
                 phase_read, err, biasVars, mainVars, outVars, runVars,
                 dates, span_bw, p_level, cumVars>>

\* estimate_tsbias_approx, line 615
AverageSpan ==
  /\ entry = "span" /\ pc = "conn"
  /\ span_bw' = average_temporal_span(dates, bw)
  /\ pc' = "span"
  /\ UNCHANGED <<date12_list, phase, entry, level, num_sigma, threshold_amp, box_list,
                 bi, avg_closure_phase, num_cp, mask, files, closure_phase,
                 phase_read, err, biasVars, mainVars, outVars, runVars,
                 dates, span_conn, p_level, cumVars>>

\* estimate_tsbias_approx, line 617
LevelOfSpan ==
  /\ entry = "span" /\ pc = "span"
  /\ p_level' = p_of(dates, bw)
  /\ pc' = "done"
  /\ UNCHANGED <<date12_list, phase, entry, level, num_sigma, threshold_amp, box_list,
                 bi, avg_closure_phase, num_cp, mask, files, closure_phase,
                 phase_read, err, biasVars, mainVars, outVars, runVars,
                 dates, span_conn, span_bw, cumVars>>

NextSpan ==
  \/ AverageConnN
  \/ AverageSpan
  \/ LevelOfSpan

SpecSpan == InitSpan /\ [][NextSpan]_vars

\* the pairs of dates i < j at most c apart in the list, and those exactly c apart
PairsWithin(c) ==
  {d \in (1..Len(dates)) \X (1..Len(dates)) : d[1] < d[2] /\ d[2] - d[1] <= c}

PairsAt(c) == {d \in PairsWithin(c) : d[2] - d[1] = c}

\* the mean of the time span over a set of pairs
MeanSpan(S) == Num(SumOver(S, [d \in S |-> dates[d[2]] - dates[d[1]]]), Cardinality(S))

\* how far the average span of level c is from the average of the network
Off(c) == FAbs(FSub(span_conn[c], span_bw))

\* C28: for a strictly increasing list of dates and 1 <= bw < N, what
\* average_connN_igrams returns for c is the mean of dates[i+c] - dates[i] over
\* every i, what average_temporal_span returns is the mean span over the
\* pairs at most bw apart, and p is in 1..bw, no level is nearer the network
\* average than p, and every level below p is farther.
C28_SpansAreMeans ==
  entry = "span" =>
    /\ pc \in {"conn", "span", "done"} =>
         \A c \in 1..bw : span_conn[c] = MeanSpan(PairsAt(c))
    /\ pc \in {"span", "done"} => span_bw = MeanSpan(PairsWithin(bw))
    /\ pc = "done" =>
         /\ p_level \in 1..bw
         /\ \A c \in 1..bw : ~FLess(Off(c), Off(p_level))
         /\ \A c \in 1..(p_level - 1) : FLess(Off(p_level), Off(c))

\* p was chosen from dates that are not evenly spaced, with a level above p
\* as near the network average as p is
C28_Witness ==
  /\ entry = "span" /\ pc = "done"
  /\ \E c \in (p_level + 1)..bw : Off(c) = Off(p_level)
  /\ \E i \in 2..(Len(dates) - 1) : dates[i + 1] - dates[i] # dates[i] - dates[i - 1]

====
